---------------------------- MODULE Spec2Model ----------------------------
(***************************************************************************)
(* SLQuest: the quest engine and object pool (SLQuest_QuestEngine.py), the *)
(* callback registry, package cache, wire encoding, reply clamping and the *)
(* async dispatch worker (SLQuest_ServerHTTP_API.py).                      *)
(*                                                                         *)
(* Strings that are inspected character by character (wire packages,      *)
(* replies) are sequences of Unicode code points.  Opaque identifiers      *)
(* (avatar keys, urls, npc ids) are TLA+ strings or small integers.        *)
(* An optional value (Python None) is the empty sequence None, a present   *)
(* value x is Some(x) = <<x>>.                                             *)
(***************************************************************************)
EXTENDS Integers, Sequences, FiniteSets, TLC

VARIABLES
    now,          \* wall clock, in ticks of 1/SubSec second
    pool,         \* pools/objects.json: object_id -> Option(record)
    player,       \* quests/player/<avatar>.json: avatar -> state record
    nextQuestId,  \* source of fresh quest ids (uuid4)
    ret,          \* what the last operation returned to its caller
    fnIn,         \* argument of the pure function under study
    fnOut,        \* its result, None before the call
    callbacks,    \* CALLBACKS: (object_key, npc_id) -> registration or None
    pkgCache,     \* PKG_CACHE: the entries held, each with its token
    issued,       \* every entry pkg_cache_put has ever stored
    nextUuid,     \* source of fresh uuid4 values of the HTTP server
    jobs,         \* the threads in flight: /chat_async workers, request handlers
    posted,       \* the callback POSTs made so far
    thread,       \* chat/<avatar>/<npc>/: stored conversation id and instructions hash
    history,      \* chat/<avatar>/<npc>/history.json: the turn log
    remote,       \* the conversations created at the language-model service
    config,       \* NPC files: the instructions in force and max_history_events
    IN_FLIGHT     \* profile enricher: the avatars whose enrichment is under way

fnVars == <<fnIn, fnOut>>
asyncVars == <<callbacks, pkgCache, issued, nextUuid, jobs, posted>>
chatVars == <<thread, history, remote, config>>
enrichVars == <<IN_FLIGHT>>
vars == <<now, pool, player, nextQuestId, ret, fnVars, asyncVars, chatVars, enrichVars>>

(***************************************************************************)
(* Bounds of the model                                                     *)
(***************************************************************************)
SubSec == 2          \* clock ticks per second
MaxObjects == 1      \* object ids 1..MaxObjects that register with the pool
MaxDifficulty == 2   \* difficulties 1..MaxDifficulty
MaxQuests == 2       \* quests generated in one behaviour
MaxWindows == 1      \* staleness windows the clock may run past
MaxSeconds == 1      \* seconds the clock of the quest specification runs
MaxTicks == 2        \* ticks the clock of the pool specification runs between jumps

(***************************************************************************)
(* Program constants                                                       *)
(***************************************************************************)
POOL_STALE_SECONDS == 604800
API_POOL_STALE_SECONDS == 600
MAX_RECENT_OBJECTS == 20
AUTO_COUNT_MAX == 3
EmptyId == 0         \* the empty object id "" (falsy)

None == << >>
Some(x) == << x >>
IsNone(o) == o = << >>
Val(o) == o[1]

Min(a, b) == IF a <= b THEN a ELSE b
Max(a, b) == IF a >= b THEN a ELSE b
SetMax(S) == CHOOSE x \in S : \A y \in S : y <= x

Avatars == {"av1"}
EmptyAvatar == ""
AvatarInputs == Avatars \cup {EmptyAvatar}
ObjIds == 1..MaxObjects            \* the objects of the pool specification
QuestObjIds == {1, 2}              \* the objects of the quest specification
Difficulties == 1..MaxDifficulty
Categories == {"hidden"}

(***************************************************************************)
(* The HTTP server's registries before any request                         *)
(***************************************************************************)
ObjectKeys == {"obj1"}
NpcIds == {"npc1"}
CbKeys == ObjectKeys \X NpcIds

ThreadKeys == Avatars \X NpcIds

\* no conversation id and no instructions hash stored
NoThread == [conversation_id |-> None, instructions_hash |-> None]

\* load_npc_config defaults and the first version of the NPC's system text
DefaultConfig == [instructions |-> 1, max_history |-> 8]

\* no enrichment under way
EnrichIdle == IN_FLIGHT = {}

ChatIdle ==
    /\ thread = [k \in ThreadKeys |-> NoThread]
    /\ history = [k \in ThreadKeys |-> << >>]
    /\ remote = << >>
    /\ config = DefaultConfig
    /\ EnrichIdle

AsyncIdle ==
    /\ callbacks = [k \in CbKeys |-> None]
    /\ pkgCache = {}
    /\ issued = {}
    /\ nextUuid = 1
    /\ jobs = << >>
    /\ posted = << >>

(***************************************************************************)
(* Text.  A Python str is a sequence of code points; its UTF-8 encoding    *)
(* and the percent-encoding of urllib.parse.quote(value, safe="") are      *)
(* computed as the library computes them.  Long texts are folded by        *)
(* halving, so that the depth of the recursion stays logarithmic.          *)
(***************************************************************************)
Rep(n, c) == [i \in 1..n |-> c]

\* len(char.encode("utf-8"))
Utf8Width(c) ==
    IF c < 128 THEN 1 ELSE IF c < 2048 THEN 2 ELSE IF c < 65536 THEN 3 ELSE 4

\* char.encode("utf-8")
Utf8(c) ==
    IF c < 128 THEN <<c>>
    ELSE IF c < 2048 THEN <<192 + c \div 64, 128 + (c % 64)>>
    ELSE IF c < 65536
    THEN <<224 + c \div 4096, 128 + ((c \div 64) % 64), 128 + (c % 64)>>
    ELSE <<240 + c \div 262144, 128 + ((c \div 4096) % 64),
           128 + ((c \div 64) % 64), 128 + (c % 64)>>

RECURSIVE SumWidth(_, _, _)
SumWidth(text, lo, hi) ==
    IF lo > hi THEN 0
    ELSE IF lo = hi THEN Utf8Width(text[lo])
    ELSE LET mid == (lo + hi) \div 2
         IN  SumWidth(text, lo, mid) + SumWidth(text, mid + 1, hi)

\* len(text.encode("utf-8"))
ByteLen(text) == SumWidth(text, 1, Len(text))

RECURSIVE Flatten(_, _, _)
Flatten(parts, lo, hi) ==
    IF lo > hi THEN << >>
    ELSE IF lo = hi THEN parts[lo]
    ELSE LET mid == (lo + hi) \div 2
         IN  Flatten(parts, lo, mid) \o Flatten(parts, mid + 1, hi)

\* urllib.parse.quote: the characters never quoted (letters, digits, _.-~)
Unreserved(c) ==
    \/ c \in 65..90 \/ c \in 97..122 \/ c \in 48..57
    \/ c \in {95, 46, 45, 126}

\* the upper-case hexadecimal digit of n, as quote() writes it
HexDigit(n) == IF n < 10 THEN 48 + n ELSE 55 + n

QuoteByte(b) == <<37, HexDigit(b \div 16), HexDigit((b % 16))>>

\* mutant: the percent sign itself is passed through
QuoteChar_KeepsPercent(c) ==
    IF Unreserved(c) \/ c = 37 THEN <<c>>
    ELSE LET bytes == Utf8(c)
         IN  Flatten([i \in 1..Len(bytes) |-> QuoteByte(bytes[i])], 1, Len(bytes))

QuoteChar(c) ==
    IF Unreserved(c) THEN <<c>>
    ELSE LET bytes == Utf8(c)
         IN  Flatten([i \in 1..Len(bytes) |-> QuoteByte(bytes[i])], 1, Len(bytes))

\* esc(value) = quote(value or "", safe="")
esc(value) ==
    Flatten([i \in 1..Len(value) |-> QuoteChar(value[i])], 1, Len(value))

\* "|".join(parts)
JoinBar(parts) ==
    Flatten([i \in 1..(2 * Len(parts) - 1) |->
                IF i % 2 = 1 THEN parts[(i + 1) \div 2] ELSE <<124>>],
            1, 2 * Len(parts) - 1)

\* pack(fields): a field is <<key, val>>, val an optional text; fields with
\* an empty key or no value are left out
pack(fields) ==
    LET Kept(f) == f[1] # << >> /\ ~IsNone(f[2])
        kept == SelectSeq(fields, Kept)
    IN  JoinBar([i \in 1..Len(kept) |-> kept[i][1] \o <<61>> \o esc(Val(kept[i][2]))])

\* trim_to_bytes counts the leading characters of text[lo..hi] whose
\* encodings fit together in budget bytes; the loop stops at the first
\* character that does not fit, which halving finds as well because every
\* character has a positive width
RECURSIVE FitCount(_, _, _, _)
FitCount(text, lo, hi, budget) ==
    IF lo > hi THEN 0
    ELSE IF lo = hi THEN (IF Utf8Width(text[lo]) <= budget THEN 1 ELSE 0)
    ELSE LET mid == (lo + hi) \div 2
             left == SumWidth(text, lo, mid)
         IN  IF left <= budget
             THEN (mid - lo + 1) + FitCount(text, mid + 1, hi, budget - left)
             ELSE FitCount(text, lo, mid, budget)

trim_to_bytes(text, max_bytes) ==
    SubSeq(text, 1, FitCount(text, 1, Len(text), max_bytes))

\* str.rfind(char): the last index (from 0) of char, -1 when absent
rfind(text, c) ==
    LET at == {i \in 1..Len(text) : text[i] = c}
    IN  IF at = {} THEN -1 ELSE SetMax(at) - 1

DEFAULT_MAX_BYTES == 1024
ELLIPSIS == <<8230>>

\* mutant: the fallback keeps no room for the ellipsis
clamp_reply_NoRoom(text, max_bytes) ==
    IF ByteLen(text) <= max_bytes THEN text
    ELSE LET trimmed == trim_to_bytes(text, max_bytes)
             boundary == Max(Max(rfind(trimmed, 46), rfind(trimmed, 33)),
                             rfind(trimmed, 63))
         IN  IF boundary # -1 THEN SubSeq(trimmed, 1, boundary + 1)
             ELSE trim_to_bytes(text, max_bytes) \o ELLIPSIS

clamp_reply(text, max_bytes) ==
    IF ByteLen(text) <= max_bytes THEN text
    ELSE LET trimmed == trim_to_bytes(text, max_bytes)
             boundary == Max(Max(rfind(trimmed, 46), rfind(trimmed, 33)),
                             rfind(trimmed, 63))
         IN  IF boundary # -1 THEN SubSeq(trimmed, 1, boundary + 1)
             ELSE trim_to_bytes(text, max_bytes - ByteLen(ELLIPSIS)) \o ELLIPSIS

(***************************************************************************)
(* Timestamps.  _now_iso() and pool_register render the clock with         *)
(* timespec="seconds": the sub-second part is dropped.  A stored last_seen *)
(* is a parsed timestamp, missing, or text fromisoformat() rejects.        *)
(***************************************************************************)
now_iso(t) == t \div SubSec
parse_iso(sec) == sec * SubSec
TsOk(sec) == [kind |-> "ts", sec |-> sec]
TsMissing == [kind |-> "missing", sec |-> 0]
TsBad == [kind |-> "bad", sec |-> 0]

(***************************************************************************)
(* Object pool                                                             *)
(***************************************************************************)
\* mutant: an entry without a usable timestamp is taken to be fresh
IsStale_KeepsUndated(obj_data, cutoff) ==
    IF obj_data.last_seen.kind = "ts"
    THEN parse_iso(obj_data.last_seen.sec) < cutoff
    ELSE FALSE

\* get_active_objects lines 97-108: stale, or without a usable timestamp
IsStale(obj_data, cutoff) ==
    IF obj_data.last_seen.kind = "ts"
    THEN parse_iso(obj_data.last_seen.sec) < cutoff
    ELSE TRUE

\* QuestEngine.get_active_objects: the ids of the objects returned
get_active_objects(min_difficulty, max_difficulty, category, exclude_objects) ==
    LET cutoff == now - POOL_STALE_SECONDS * SubSec
        exclude_set == {exclude_objects[i] : i \in 1..Len(exclude_objects)}
    IN  {obj_id \in DOMAIN pool :
            /\ ~IsNone(pool[obj_id])
            /\ obj_id \notin exclude_set
            /\ ~IsStale(Val(pool[obj_id]), cutoff)
            /\ (IsNone(min_difficulty) \/ Val(pool[obj_id]).difficulty >= Val(min_difficulty))
            /\ (IsNone(max_difficulty) \/ Val(pool[obj_id]).difficulty <= Val(max_difficulty))
            /\ (IsNone(category) \/ Val(pool[obj_id]).category = Val(category))}

\* SLQuest_ServerHTTP_API.get_active_objects (used by /pool/status)
api_get_active_objects(min_difficulty, max_difficulty, category) ==
    LET cutoff == now - API_POOL_STALE_SECONDS * SubSec
    IN  {obj_id \in DOMAIN pool :
            /\ ~IsNone(pool[obj_id])
            /\ ~IsStale(Val(pool[obj_id]), cutoff)
            /\ (IsNone(min_difficulty) \/ Val(pool[obj_id]).difficulty >= Val(min_difficulty))
            /\ (IsNone(max_difficulty) \/ Val(pool[obj_id]).difficulty <= Val(max_difficulty))
            /\ (IsNone(category) \/ Val(pool[obj_id]).category = Val(category))}

PoolEntry(object_id, difficulty, category, t) ==
    [object_id |-> object_id, difficulty |-> difficulty, category |-> category,
     last_seen |-> TsOk(now_iso(t))]

\* POST /pool/register; was_present and was_active record how the pool
\* held the object before the call
PoolRegister(object_id, difficulty, category) ==
    /\ IF object_id = EmptyId
       THEN /\ ret' = [op |-> "pool_register", status |-> 400, object_id |-> object_id,
                       was_present |-> FALSE, was_active |-> FALSE]
            /\ UNCHANGED pool
       ELSE /\ pool' = [pool EXCEPT ![object_id] =
                           Some(PoolEntry(object_id, difficulty, category, now))]
            /\ ret' = [op |-> "pool_register", status |-> 200, object_id |-> object_id,
                       was_present |-> ~IsNone(pool[object_id]),
                       was_active |->
                           object_id \in get_active_objects(None, None, None, << >>)]
    /\ UNCHANGED <<now, player, nextQuestId, fnVars, asyncVars>>
    /\ UNCHANGED <<chatVars, enrichVars>>

\* the registration answered directly before the current call, if any
JustRegistered == IF ret.op = "pool_register" THEN Some(ret) ELSE None

\* GET /pool/status
PoolStatus ==
    /\ ret' = [op |-> "pool_status",
               active |-> api_get_active_objects(None, None, None),
               total |-> {o \in DOMAIN pool : ~IsNone(pool[o])},
               prev |-> JustRegistered]
    /\ UNCHANGED <<now, pool, player, nextQuestId, fnVars, asyncVars>>
    /\ UNCHANGED <<chatVars, enrichVars>>

\* QuestEngine.get_active_objects() called with no filter
ActiveQuery ==
    /\ ret' = [op |-> "get_active_objects",
               active |-> get_active_objects(None, None, None, << >>),
               prev |-> JustRegistered]
    /\ UNCHANGED <<now, pool, player, nextQuestId, fnVars, asyncVars>>
    /\ UNCHANGED <<chatVars, enrichVars>>

(***************************************************************************)
(* Player state                                                            *)
(***************************************************************************)
DefaultState ==
    [current_quest |-> None,
     history |-> [quests_completed |-> 0, recent_objects |-> << >>]]

load_player_state(avatar_key) ==
    IF avatar_key = EmptyAvatar THEN DefaultState ELSE player[avatar_key]

\* save_player_state: nothing is written for an empty avatar key
save_player_state(avatar_key, state) ==
    IF avatar_key = EmptyAvatar
    THEN UNCHANGED player
    ELSE player' = [player EXCEPT ![avatar_key] = state]


(***************************************************************************)
(* Quest generation                                                        *)
(***************************************************************************)
\* mutant: the guard looks for the wrong status
HasActiveQuest_WrongStatus(current) ==
    ~IsNone(current) /\ Val(current).status = "completed"

\* generate_quest line 185: the guard that refuses a second quest
HasActiveQuest(current) ==
    ~IsNone(current) /\ Val(current).status = "active"

\* generate_quest lines 198-200: auto-scaled objective count
\* mutant: the automatic count is not capped
AutoCount_NoCap(quests_completed) == Max(1, quests_completed + 1)

AutoCount(quests_completed) ==
    Max(1, Min(quests_completed + 1, AUTO_COUNT_MAX))

\* generate_quest lines 203-215: progressive relaxation of the filters
Candidates(difficulty, count, recent_objects) ==
    LET first == get_active_objects(difficulty, difficulty, None, recent_objects)
        second == IF Cardinality(first) < count
                  THEN get_active_objects(None, None, None, recent_objects)
                  ELSE first
    IN  IF Cardinality(second) < count
        THEN get_active_objects(None, None, None, << >>)
        ELSE second

\* random.sample(population, k): every ordering of every k-subset
Sample(population, k) ==
    {s \in [1..k -> population] : \A i, j \in 1..k : i # j => s[i] # s[j]}

NewObjective(object_id) ==
    [object_id |-> object_id, found |-> FALSE, found_at |-> None]

\* Python truthiness of the difficulty argument (None and 0 are falsy)
Truthy(difficulty) == ~IsNone(difficulty) /\ Val(difficulty) # 0

QuestDifficulty(difficulty, selected) ==
    IF Truthy(difficulty)
    THEN Val(difficulty)
    ELSE SetMax({Val(pool[selected[i]]).difficulty : i \in 1..Len(selected)})

NewQuest(quest_id, difficulty, selected) ==
    [quest_id |-> quest_id,
     difficulty |-> QuestDifficulty(difficulty, selected),
     objectives |-> [i \in 1..Len(selected) |-> NewObjective(selected[i])],
     status |-> "active",
     reward_given |-> FALSE]

Raised(avatar_key, what) ==
    [op |-> "generate_quest", avatar |-> avatar_key, ok |-> FALSE, error |-> what,
     raised |-> TRUE, quest_id |-> None]

Failed(avatar_key, error, quest_id) ==
    [op |-> "generate_quest", avatar |-> avatar_key, ok |-> FALSE, error |-> error,
     raised |-> FALSE, quest_id |-> quest_id]

\* generate_quest: every (result, state to save) the call can produce;
\* save is None when nothing is written
generate_quest(avatar_key, difficulty, count) ==
    IF avatar_key = EmptyAvatar
    THEN {[res |-> Failed(avatar_key, "missing_avatar_key", None), save |-> None]}
    ELSE
    LET state == load_player_state(avatar_key)
        current == state.current_quest
    IN  IF HasActiveQuest(current)
        THEN {[res |-> Failed(avatar_key, "already_has_active_quest",
                              Some(Val(current).quest_id)),
               save |-> None]}
        ELSE
        LET n == IF IsNone(count)
                 THEN AutoCount(state.history.quests_completed)
                 ELSE Val(count)
            active_objects == Candidates(difficulty, n, state.history.recent_objects)
            k == Min(n, Cardinality(active_objects))
        IN  IF active_objects = {}
            THEN {[res |-> Failed(avatar_key, "no_active_objects", None), save |-> None]}
            ELSE IF k < 0
            THEN {[res |-> Raised(avatar_key, "ValueError"), save |-> None]}
            ELSE IF k = 0 /\ ~Truthy(difficulty)
            THEN {[res |-> Raised(avatar_key, "ValueError"), save |-> None]}
            ELSE {[res |-> [op |-> "generate_quest", avatar |-> avatar_key, ok |-> TRUE,
                            raised |-> FALSE, error |-> "",
                            quest_id |-> Some(nextQuestId), count |-> k],
                   save |-> Some([state EXCEPT !.current_quest =
                                    Some(NewQuest(nextQuestId, difficulty, selected))])]
                  : selected \in Sample(active_objects, k)}

\* the writes of one generate_quest outcome
ApplyGenerate(avatar_key, out) ==
    /\ out.res.ok => nextQuestId <= MaxQuests
    /\ IF IsNone(out.save)
       THEN UNCHANGED <<player, nextQuestId>>
       ELSE /\ save_player_state(avatar_key, Val(out.save))
            /\ nextQuestId' = nextQuestId + 1

DifficultyInputs == {None} \cup {Some(d) : d \in 0..MaxDifficulty}
CountInputs == {None} \cup {Some(c) : c \in (-1)..Cardinality(QuestObjIds)}

GenerateQuest(avatar_key, difficulty, count) ==
    /\ \E out \in generate_quest(avatar_key, difficulty, count) :
          /\ ApplyGenerate(avatar_key, out)
          /\ ret' = out.res
    /\ UNCHANGED <<now, pool, fnVars, asyncVars>>
    /\ UNCHANGED <<chatVars, enrichVars>>

(***************************************************************************)
(* Quest events                                                            *)
(***************************************************************************)
\* mutant: the found flag is not consulted
Marks_IgnoresFound(obj, object_id) == obj.object_id = object_id

\* handle_quest_event lines 296-297: the objective the event marks
Marks(obj, object_id) == obj.object_id = object_id /\ ~obj.found

\* handle_quest_event lines 295-307: the loop over the objectives
MarkFound(objectives, object_id) ==
    [i \in 1..Len(objectives) |->
        IF Marks(objectives[i], object_id)
        THEN [objectives[i] EXCEPT !.found = TRUE, !.found_at = Some(now_iso(now))]
        ELSE objectives[i]]

FoundCount(objectives) ==
    Cardinality({i \in 1..Len(objectives) : objectives[i].found})

\* mutant: completion declared one objective early
CompletedBy_OffByOne(found_count, total_count) == found_count + 1 >= total_count

\* handle_quest_event lines 310-312
CompletedBy(found_count, total_count) == found_count >= total_count

\* handle_quest_event lines 277-329, on the state read at line 280: the
\* result returned and, when the player file is written, the state saved
EventOn(state, avatar_key, object_id) ==
    IF avatar_key = EmptyAvatar \/ object_id = EmptyId
    THEN [result |-> [op |-> "handle_quest_event", ok |-> FALSE, matched |-> FALSE,
                      error |-> "missing_fields", reason |-> "",
                      avatar |-> avatar_key, object_id |-> object_id],
          save |-> None]
    ELSE
    LET current == state.current_quest
    IN  IF IsNone(current) \/ Val(current).status # "active"
        THEN [result |-> [op |-> "handle_quest_event", ok |-> TRUE, matched |-> FALSE,
                          error |-> "", reason |-> "no_active_quest",
                          avatar |-> avatar_key, object_id |-> object_id],
              save |-> None]
        ELSE
        LET objectives == Val(current).objectives
            marked == MarkFound(objectives, object_id)
            matched == \E i \in 1..Len(objectives) : Marks(objectives[i], object_id)
            found_count == FoundCount(marked)
            total_count == Len(objectives)
            quest_completed == CompletedBy(found_count, total_count)
            quest == [Val(current) EXCEPT
                        !.objectives = marked,
                        !.status = IF quest_completed THEN "completed" ELSE @]
        IN  [result |-> [op |-> "handle_quest_event", ok |-> TRUE, matched |-> matched,
                         error |-> "", reason |-> "",
                         avatar |-> avatar_key, object_id |-> object_id,
                         quest_completed |-> quest_completed,
                         found_count |-> found_count, total_count |-> total_count,
                         quest_id |-> Val(current).quest_id],
             save |-> Some([state EXCEPT !.current_quest = Some(quest)])]

\* handle_quest_event
handle_quest_event(avatar_key, object_id) ==
    EventOn(load_player_state(avatar_key), avatar_key, object_id)

\* the write of handle_quest_event, if it makes one
ApplyEvent(avatar_key, out) ==
    IF IsNone(out.save) THEN UNCHANGED player
    ELSE save_player_state(avatar_key, Val(out.save))

HandleQuestEvent(avatar_key, object_id) ==
    /\ LET out == handle_quest_event(avatar_key, object_id)
       IN  /\ ApplyEvent(avatar_key, out)
           /\ ret' = out.result
    /\ UNCHANGED <<now, pool, nextQuestId, fnVars, asyncVars>>
    /\ UNCHANGED <<chatVars, enrichVars>>

(***************************************************************************)
(* Chat hooks                                                              *)
(***************************************************************************)
\* build_quest_context: the facts the rendered text states
build_quest_context(state) ==
    LET current == state.current_quest
    IN  IF IsNone(current)
        THEN [status |-> "none", quest_id |-> None,
              quests_completed |-> state.history.quests_completed,
              found |-> {}, remaining |-> {}, total |-> 0]
        ELSE
        LET objectives == Val(current).objectives
            found == {objectives[i].object_id : i \in
                        {j \in 1..Len(objectives) : objectives[j].found}}
            unfound == {objectives[i].object_id : i \in
                        {j \in 1..Len(objectives) : ~objectives[j].found}}
        IN  [status |-> Val(current).status, quest_id |-> Some(Val(current).quest_id),
             quests_completed |-> state.history.quests_completed,
             found |-> found,
             remaining |-> IF Val(current).status = "active" THEN unfound ELSE {},
             total |-> Len(objectives)]

\* the text of the identifiers and literals that end up in a package
Text(id) ==
    CASE id = "" -> << >>
      [] id = "av1" -> <<97, 118, 49>>
      [] id = "npc1" -> <<110, 112, 99, 49>>
      [] id = "r1" -> <<114, 49>>
      [] id = " r1 " -> <<32, 114, 49, 32>>
      [] id = "hello" -> <<104, 101, 108, 108, 111>>
      [] id = "give me a quest" -> <<103, 105, 118, 101, 32, 109, 101, 32, 97, 32, 113, 117, 101, 115, 116>>
      [] id = "Give:QUEST_REWARD" -> <<71, 105, 118, 101, 58, 81, 85, 69, 83, 84, 95, 82, 69, 87, 65, 82, 68>>
      [] id = "QUEST?" -> <<81, 85, 69, 83, 84, 63>>
      [] id = "look" -> <<108, 111, 111, 107>>

\* str.lower(), on the letters A-Z
Lower(text) ==
    [i \in 1..Len(text) |-> IF text[i] \in 65..90 THEN text[i] + 32 ELSE text[i]]

\* marker in message
Contains(text, marker) ==
    \E i \in 1..(Len(text) - Len(marker) + 1) :
        SubSeq(text, i, i + Len(marker) - 1) = marker

\* quest_pre_chat lines 443-454: the keywords that signal a wish for a quest
QuestKeywords ==
    {<<113, 117, 101, 115, 116>>,
     <<97, 100, 118, 101, 110, 116, 117, 114, 101>>,
     <<109, 105, 115, 115, 105, 111, 110>>,
     <<116, 97, 115, 107>>,
     <<115, 111, 109, 101, 116, 104, 105, 110, 103, 32, 116, 111, 32, 100, 111>>,
     <<98, 111, 114, 101, 100>>,
     <<99, 104, 97, 108, 108, 101, 110, 103, 101>>,
     <<102, 105, 110, 100>>,
     <<104, 117, 110, 116>>,
     <<115, 101, 97, 114, 99, 104>>,
     <<115, 117, 114, 101>>,
     <<121, 101, 115>>,
     <<121, 101, 97, 104>>,
     <<121, 101, 112>>,
     <<111, 107>>,
     <<111, 107, 97, 121>>,
     <<111, 102, 32, 99, 111, 117, 114, 115, 101>>,
     <<119, 104, 121, 32, 110, 111, 116>>,
     <<108, 101, 116, 39, 115, 32, 103, 111>>,
     <<108, 101, 116, 115, 32, 103, 111>>,
     <<108, 101, 116, 39, 115, 32, 100, 111, 32, 105, 116>>,
     <<108, 101, 116, 115, 32, 100, 111, 32, 105, 116>>,
     <<103, 105, 118, 101, 32, 109, 101>>,
     <<115, 116, 97, 114, 116>>,
     <<98, 101, 103, 105, 110>>,
     <<114, 101, 97, 100, 121>>,
     <<105, 32, 119, 97, 110, 116>>,
     <<105, 39, 100, 32, 108, 105, 107, 101>>,
     <<105, 32, 119, 111, 117, 108, 100, 32, 108, 105, 107, 101>>,
     <<99, 104, 105, 108, 108>>,
     <<115, 112, 111, 111, 107, 121>>}

Messages == {"hello", "give me a quest"}

\* mutant: every message is taken as a wish for a quest
wants_quest_Always(message) == TRUE

\* quest_pre_chat lines 442-454: any(kw in message.lower() for kw in [...])
wants_quest(message) ==
    \E kw \in QuestKeywords : Contains(Lower(Text(message)), kw)

\* quest_pre_chat: what one call may do.  gen is the generate_quest outcome
\* when the hook asked for a quest, result is what the hook returns
quest_pre_chat(avatar_key, message) ==
    LET state == load_player_state(avatar_key)
        current == state.current_quest
    IN  IF IsNone(current) /\ wants_quest(message)
        THEN {[gen |-> Some(out),
               result |-> [actions |-> << >>,
                           quest_context |-> build_quest_context(
                               IF IsNone(out.save) THEN state ELSE Val(out.save))]] :
                  out \in generate_quest(avatar_key, None, None)}
        ELSE {[gen |-> None,
               result |-> [actions |-> << >>,
                           quest_context |-> build_quest_context(state)]]}

\* the writes of one quest_pre_chat outcome
ApplyPreChat(avatar_key, out) ==
    IF IsNone(out.gen)
    THEN UNCHANGED <<player, nextQuestId>>
    ELSE ApplyGenerate(avatar_key, Val(out.gen))

\* quest_pre_chat called on its own
QuestPreChat(avatar_key, message) ==
    /\ \E out \in quest_pre_chat(avatar_key, message) :
          /\ ApplyPreChat(avatar_key, out)
          /\ ret' = [op |-> "quest_pre_chat", avatar |-> avatar_key,
                     message |-> message,
                     actions |-> out.result.actions,
                     quest_context |-> out.result.quest_context]
    /\ UNCHANGED <<now, pool, fnVars, asyncVars>>
    /\ UNCHANGED <<chatVars, enrichVars>>

\* quest_post_chat line 483-484: the guard of the reward grant
RewardDue(current) ==
    /\ ~IsNone(current)
    /\ Val(current).status = "completed"
    /\ ~Val(current).reward_given

InSeq(x, seq) == \E i \in 1..Len(seq) : seq[i] = x

\* quest_post_chat lines 494-497: append the quest's ids not yet listed
RECURSIVE AppendRecent(_, _, _)
AppendRecent(recent, objectives, i) ==
    IF i > Len(objectives) THEN recent
    ELSE LET obj_id == objectives[i].object_id
         IN  AppendRecent(IF obj_id # EmptyId /\ ~InSeq(obj_id, recent)
                          THEN Append(recent, obj_id) ELSE recent,
                          objectives, i + 1)

\* quest_post_chat line 500: history["recent_objects"][-MAX_RECENT_OBJECTS:]
LastN(seq, n) ==
    IF Len(seq) <= n THEN seq ELSE SubSeq(seq, Len(seq) - n + 1, Len(seq))

\* mutant: the rewarded quest is neither flagged nor cleared
GrantReward_KeepsQuest(state) ==
    [state EXCEPT !.history.quests_completed = @ + 1]

\* quest_post_chat lines 487-503: the state after the grant
GrantReward(state) ==
    [current_quest |-> None,
     history |-> [quests_completed |-> state.history.quests_completed + 1,
                  recent_objects |->
                      LastN(AppendRecent(state.history.recent_objects,
                                         Val(state.current_quest).objectives, 1),
                            MAX_RECENT_OBJECTS)]]

\* quest_post_chat lines 480-516: what the hook does with the state it read
PostChatOn(state) ==
    IF RewardDue(state.current_quest)
    THEN [save |-> Some(GrantReward(state)), actions |-> <<"Give:QUEST_REWARD">>]
    ELSE [save |-> None, actions |-> << >>]

\* quest_post_chat: the state it saves, if any, and the actions it returns
quest_post_chat(avatar_key) == PostChatOn(load_player_state(avatar_key))

\* the writes of quest_post_chat
ApplyPostChat(avatar_key, out) ==
    IF IsNone(out.save)
    THEN UNCHANGED player
    ELSE save_player_state(avatar_key, Val(out.save))

\* quest_post_chat called on its own; prev_actions records what the call
\* made directly before this one returned, when that call was quest_post_chat
\* for the same avatar
QuestPostChat(avatar_key) ==
    /\ LET out == quest_post_chat(avatar_key)
           prev == IF ret.op = "quest_post_chat" /\ ret.avatar = avatar_key
                   THEN Some(ret.actions) ELSE None
       IN  /\ ApplyPostChat(avatar_key, out)
           /\ ret' = [op |-> "quest_post_chat", avatar |-> avatar_key,
                      actions |-> out.actions, prev_actions |-> prev]
    /\ UNCHANGED <<now, pool, nextQuestId, fnVars, asyncVars>>
    /\ UNCHANGED <<chatVars, enrichVars>>

(***************************************************************************)
(* The clock                                                               *)
(***************************************************************************)
Window == POOL_STALE_SECONDS * SubSec
ApiWindow == API_POOL_STALE_SECONDS * SubSec

\* the clock moves on by one tick, a fraction of a second
TickSub ==
    /\ now % ApiWindow < MaxTicks
    /\ now' = now + 1
    /\ ret' = [op |-> "tick"]
    /\ UNCHANGED <<pool, player, nextQuestId, fnVars, asyncVars>>
    /\ UNCHANGED <<chatVars, enrichVars>>

\* the clock moves on to the next full second
TickSecond ==
    /\ (now % ApiWindow) \div SubSec < MaxSeconds
    /\ now' = (now \div SubSec + 1) * SubSec
    /\ ret' = [op |-> "tick"]
    /\ UNCHANGED <<pool, player, nextQuestId, fnVars, asyncVars>>
    /\ UNCHANGED <<chatVars, enrichVars>>

\* the clock moves on by the staleness window of /pool/status
TickApiWindow ==
    /\ (now % Window) \div ApiWindow = 0
    /\ now' = now + ApiWindow
    /\ ret' = [op |-> "tick"]
    /\ UNCHANGED <<pool, player, nextQuestId, fnVars, asyncVars>>
    /\ UNCHANGED <<chatVars, enrichVars>>

\* the clock moves on by the staleness window of the quest engine
TickWindow ==
    /\ now \div Window < MaxWindows
    /\ now' = now + Window
    /\ ret' = [op |-> "tick"]
    /\ UNCHANGED <<pool, player, nextQuestId, fnVars, asyncVars>>
    /\ UNCHANGED <<chatVars, enrichVars>>

(***************************************************************************)
(* The object pool: registrations, queries and the clock                   *)
(***************************************************************************)
\* objects.json as found at start: empty, or holding an entry written by hand
SeedEntries ==
    {None,
     Some([object_id |-> 1, difficulty |-> 1, category |-> "hidden",
           last_seen |-> TsMissing]),
     Some([object_id |-> 1, difficulty |-> 1, category |-> "hidden",
           last_seen |-> TsBad])}

InitPool ==
    /\ now = 0
    /\ \E seed \in SeedEntries : pool = [o \in ObjIds |-> IF o = 1 THEN seed ELSE None]
    /\ player = [a \in Avatars |-> DefaultState]
    /\ nextQuestId = 1
    /\ ret = [op |-> "init"]
    /\ fnIn = [op |-> "none"] /\ fnOut = None
    /\ AsyncIdle
    /\ ChatIdle

NextPool ==
    \/ TickSub
    \/ TickApiWindow
    \/ TickWindow
    \/ \E o \in ObjIds \cup {EmptyId}, d \in Difficulties, c \in Categories :
          PoolRegister(o, d, c)
    \/ PoolStatus
    \/ ActiveQuery

SpecPool == InitPool /\ [][NextPool]_vars

(***************************************************************************)
(* The quest engine, one call at a time, over a pool registered earlier    *)
(***************************************************************************)
StartTime == 2 * Window

\* an object registered a whole window before StartTime (active at
\* StartTime, stale one second later), or registered at StartTime
OldEntry(o) ==
    Some(PoolEntry(o, ((o - 1) % MaxDifficulty) + 1, "hidden", StartTime - Window))
NewEntry(o) ==
    Some(PoolEntry(o, ((o - 1) % MaxDifficulty) + 1, "hidden", StartTime))

\* the pools at StartTime: nothing registered, every object registered just
\* now, or every object registered and the first one about to go stale
StartPools ==
    {[o \in QuestObjIds |-> None],
     [o \in QuestObjIds |-> NewEntry(o)],
     [o \in QuestObjIds |-> IF o = 1 THEN OldEntry(o) ELSE NewEntry(o)]}

Init ==
    /\ now = StartTime
    /\ pool \in StartPools
    /\ player = [a \in Avatars |-> DefaultState]
    /\ nextQuestId = 1
    /\ ret = [op |-> "init"]
    /\ fnIn = [op |-> "none"] /\ fnOut = None
    /\ AsyncIdle
    /\ ChatIdle

\* the arguments of generate_quest: any difficulty and count for an avatar
GenerateInputs ==
    {<<a, d, c>> : a \in Avatars, d \in DifficultyInputs, c \in CountInputs}
        \cup {<<EmptyAvatar, None, None>>}

Next ==
    \/ TickSecond
    \/ \E in \in GenerateInputs : GenerateQuest(in[1], in[2], in[3])
    \/ \E a \in AvatarInputs, o \in QuestObjIds \cup {EmptyId} : HandleQuestEvent(a, o)
    \/ \E a \in AvatarInputs, m \in Messages : QuestPreChat(a, m)
    \/ \E a \in AvatarInputs : QuestPostChat(a)

Spec == Init /\ [][Next]_vars

(***************************************************************************)
(* The wire codec on its own: pack applied to lists of fields whose keys   *)
(* are keys the worker writes and whose values are arbitrary texts.        *)
(***************************************************************************)
MaxFields == 2

\* keys of the packages built in chat_async.worker
PackKeys == {<<67, 72, 65, 84>>, <<69, 82, 82>>, <<84, 79, 75, 69, 78>>}

\* values: empty, plain, each separator, an escape look-alike, non-ASCII
PackValues ==
    {<< >>, <<97>>, <<124>>, <<61>>, <<37>>, <<97, 61, 98, 124, 99, 37, 52, 49>>, <<233, 8364>>, <<128512, 32, 111, 107>>}

PackField == {<<k, Some(v)>> : k \in PackKeys, v \in PackValues}

PackInputs == UNION {[1..n -> PackField] : n \in 0..MaxFields}

InitPack ==
    /\ now = 0
    /\ pool = [o \in ObjIds |-> None]
    /\ player = [a \in Avatars |-> DefaultState]
    /\ nextQuestId = 1
    /\ ret = [op |-> "init"]
    /\ \E fields \in PackInputs : fnIn = [op |-> "pack", fields |-> fields]
    /\ fnOut = None
    /\ AsyncIdle
    /\ ChatIdle

Pack ==
    /\ fnIn.op = "pack"
    /\ IsNone(fnOut)
    /\ fnOut' = Some(pack(fnIn.fields))
    /\ UNCHANGED <<now, pool, player, nextQuestId, ret, fnIn, asyncVars, chatVars, enrichVars>>

NextPack == Pack

SpecPack == InitPack /\ [][NextPack]_vars

(***************************************************************************)
(* clamp_reply on its own, with the budget of its one call site, applied   *)
(* to replies made of a filler character and up to two punctuation marks   *)
(* placed around the budget.                                               *)
(***************************************************************************)
MaxSlack == 2

FillChars == {97, 233, 8364, 128512}
Marks3 == {<< >>, <<46>>, <<33>>, <<63>>}

\* how many copies of c fill the budget
Fill(c) == DEFAULT_MAX_BYTES \div Utf8Width(c)

HeadLens(c) == {0, 3} \cup {Fill(c) + k : k \in (0 - MaxSlack)..MaxSlack}
TailLens(c) == {0, 2, Fill(c)}

ClampInputs ==
    UNION {{Rep(a, c) \o p \o Rep(b, c) \o q :
                a \in HeadLens(c), b \in TailLens(c), p \in Marks3, q \in Marks3} :
           c \in FillChars}

InitClamp ==
    /\ now = 0
    /\ pool = [o \in ObjIds |-> None]
    /\ player = [a \in Avatars |-> DefaultState]
    /\ nextQuestId = 1
    /\ ret = [op |-> "init"]
    /\ \E text \in ClampInputs : fnIn = [op |-> "clamp_reply", text |-> text]
    /\ fnOut = None
    /\ AsyncIdle
    /\ ChatIdle

Clamp ==
    /\ fnIn.op = "clamp_reply"
    /\ IsNone(fnOut)
    /\ fnOut' = Some(clamp_reply(fnIn.text, DEFAULT_MAX_BYTES))
    /\ UNCHANGED <<now, pool, player, nextQuestId, ret, fnIn, asyncVars, chatVars, enrichVars>>

NextClamp == Clamp

SpecClamp == InitClamp /\ [][NextClamp]_vars

(***************************************************************************)
(* The asynchronous path: callback registry, package cache, /chat_async    *)
(* and its worker thread, /sl/fetch.  Tokens and correlation ids are       *)
(* uuid4 values, drawn from a counter so that each one is new.  The        *)
(* conversation handle and the turn log that run_chat_logic also writes    *)
(* are not part of this state.                                             *)
(***************************************************************************)
MaxTokens == 2       \* callback tokens issued in one behaviour
MaxJobs == 1         \* /chat_async submissions accepted in one behaviour
MaxPad == 2          \* padding of the replies that reach the size ceiling
MaxTtls == 1         \* callback lifetimes the clock may run past
MaxPkgTtls == 1      \* package lifetimes the clock may run past between them

CALLBACK_TTL_SECONDS == 7200
SAFE_CALLBACK_MAX == 1400
PKG_CACHE_TTL_SECONDS == 90

CallbackTtl == CALLBACK_TTL_SECONDS * SubSec
PkgTtl == PKG_CACHE_TTL_SECONDS * SubSec

\* uuid4().hex: 32 lower-case hexadecimal digits
UuidHex(n) == Rep(31, 48) \o <<IF n < 10 THEN 48 + n ELSE 87 + n>>

Urls == {"http://a", "https://b"}
UrlInputs == Urls \cup {"", "ftp://c"}
\* mutant: any url is taken
IsHttp_Any(url) == TRUE

\* callback_url.startswith("http://") or callback_url.startswith("https://")
IsHttp(url) == url \in Urls

\* mutant: registrations never expire
prune_callbacks_Never(cb, t) == cb

\* prune_callbacks at time t
prune_callbacks(cb, t) ==
    [k \in DOMAIN cb |->
        IF ~IsNone(cb[k]) /\ Val(cb[k]).updated_at < t - CallbackTtl
        THEN None ELSE cb[k]]

\* mutant: a registration never keeps its token
RegisterToken_AlwaysNew(entry, url, fresh) == fresh

\* sl_callback_register lines 2056-2064: the token of the registration
RegisterToken(entry, url, fresh) ==
    IF ~IsNone(entry) /\ Val(entry).url = url /\ Val(entry).token # 0
    THEN Val(entry).token
    ELSE fresh

\* POST /sl/callback/register; prev records the entry the handler found
SlCallbackRegister(object_key, npc_id, callback_url) ==
    /\ IF object_key = "" \/ callback_url = ""
       THEN /\ ret' = [op |-> "sl_callback_register", status |-> 400,
                       key |-> <<object_key, npc_id>>,
                       error |-> "missing_fields", url |-> callback_url,
                       callback_token |-> 0, prev |-> None, at |-> now]
            /\ UNCHANGED <<callbacks, nextUuid>>
       ELSE IF ~IsHttp(callback_url)
       THEN /\ ret' = [op |-> "sl_callback_register", status |-> 400,
                       key |-> <<object_key, npc_id>>,
                       error |-> "invalid_callback_url", url |-> callback_url,
                       callback_token |-> 0, prev |-> None, at |-> now]
            /\ UNCHANGED <<callbacks, nextUuid>>
       ELSE LET pruned == prune_callbacks(callbacks, now)
                callback_entry == pruned[<<object_key, npc_id>>]
                callback_token == RegisterToken(callback_entry, callback_url, nextUuid)
            IN  /\ callback_token = nextUuid => nextUuid <= MaxTokens
                /\ nextUuid' = IF callback_token = nextUuid THEN nextUuid + 1 ELSE nextUuid
                /\ callbacks' = [pruned EXCEPT ![<<object_key, npc_id>>] =
                                    Some([url |-> callback_url, token |-> callback_token,
                                          updated_at |-> now])]
                /\ ret' = [op |-> "sl_callback_register", status |-> 200,
                           key |-> <<object_key, npc_id>>,
                           error |-> "", url |-> callback_url,
                           callback_token |-> callback_token,
                           prev |-> callback_entry, at |-> now]
    /\ UNCHANGED <<now, pool, player, nextQuestId, fnVars, pkgCache, issued, jobs, posted>>
    /\ UNCHANGED <<chatVars, enrichVars>>

\* pkg_cache_prune at time t
pkg_cache_prune(cache, t) == {e \in cache : ~(e.expires_at < t)}

\* mutant: a read consumes the entry
CacheAfterGet_Consumes(cache, token, t) == {e \in cache : e.token # token}

\* pkg_cache_get: the cache after the read (an expired entry is dropped)
CacheAfterGet(cache, token, t) ==
    {e \in cache : ~(e.token = token /\ e.expires_at < t)}

\* pkg_cache_get: the body returned, None for no entry or an expired one
pkg_cache_get(cache, token, t) ==
    LET found == {e \in cache : e.token = token}
    IN  IF found = {} THEN None
        ELSE LET entry == CHOOSE e \in found : TRUE
             IN  IF entry.expires_at < t THEN None ELSE Some(entry.body)

\* GET /sl/fetch; token 0 stands for an absent token
SlFetch(token) ==
    /\ IF token = 0
       THEN /\ ret' = [op |-> "sl_fetch", status |-> 400, token |-> token,
                       body |-> Text(""), at |-> now]
            /\ UNCHANGED pkgCache
       ELSE LET body == pkg_cache_get(pkgCache, token, now)
            IN  /\ pkgCache' = CacheAfterGet(pkgCache, token, now)
                /\ ret' = IF IsNone(body) \/ Val(body) = << >>
                          THEN [op |-> "sl_fetch", status |-> 404, token |-> token,
                                body |-> Text(""), at |-> now]
                          ELSE [op |-> "sl_fetch", status |-> 200, token |-> token,
                                body |-> Val(body), at |-> now]
    /\ UNCHANGED <<now, pool, player, nextQuestId, fnVars,
                   callbacks, issued, nextUuid, jobs, posted>>
    /\ UNCHANGED <<chatVars, enrichVars>>

\* sanitize_punctuation
sanitize_punctuation(text) ==
    [i \in 1..Len(text) |->
        CASE text[i] \in {8216, 8217} -> 39
          [] text[i] \in {8220, 8221} -> 34
          [] text[i] \in {8211, 8212} -> 45
          [] OTHER -> text[i]]

Whitespace == {9, 10, 11, 12, 13, 28, 29, 30, 31, 32, 133, 160}

RECURSIVE SkipLeft(_, _)
SkipLeft(text, i) ==
    IF i > Len(text) \/ text[i] \notin Whitespace THEN i ELSE SkipLeft(text, i + 1)

RECURSIVE SkipRight(_, _)
SkipRight(text, i) ==
    IF i < 1 \/ text[i] \notin Whitespace THEN i ELSE SkipRight(text, i - 1)

\* str.strip()
Strip(text) == SubSeq(text, SkipLeft(text, 1), SkipRight(text, Len(text)))

\* what the language model call may do: answer with a text, answer with
\* nothing, fail with an exception, or not run for want of an API key
LongRun == (SAFE_CALLBACK_MAX - 128) \div 3
ReplyTexts ==
    {<<72, 105, 46>>, Rep(DEFAULT_MAX_BYTES \div 3 + 60, 8364)}
        \cup {Rep(LongRun, 44) \o Rep(j, 97) : j \in 0..MaxPad}
LlmOutcomes ==
    {[kind |-> "text", text |-> t] : t \in ReplyTexts}
        \cup {[kind |-> "text", text |-> << >>],
              [kind |-> "raise", text |-> <<84, 105, 109, 101, 111, 117, 116, 69, 114, 114, 111, 114, 58, 32, 116, 105, 109, 101, 100, 32, 111, 117, 116>>],
              [kind |-> "no_key", text |-> << >>]}

\* run_chat_logic lines 1233-1270 and 1489-1590: the payload of one turn
ChatPayload(outcome) ==
    IF outcome.kind = "no_key"
    THEN [ok |-> FALSE,
          reply |-> <<83, 101, 114, 118, 101, 114, 32, 109, 105, 115, 99, 111, 110, 102, 105, 103, 117, 114, 101, 100, 32, 40, 109, 105, 115, 115, 105, 110, 103, 32, 79, 80, 69, 78, 65, 73, 95, 65, 80, 73, 95, 75, 69, 89, 41, 46>>,
          error |-> <<79, 80, 69, 78, 65, 73, 95, 65, 80, 73, 95, 75, 69, 89, 32, 109, 105, 115, 115, 105, 110, 103>>]
    ELSE LET error_message ==
                 IF outcome.kind = "raise" THEN SubSeq(outcome.text, 1, Min(160, Len(outcome.text)))
                 ELSE IF outcome.text = << >> THEN <<101, 109, 112, 116, 121, 95, 114, 101, 112, 108, 121>>
                 ELSE << >>
             reply_text ==
                 IF error_message # << >>
                 THEN <<69, 114, 114, 111, 114, 58, 32, 117, 112, 115, 116, 114, 101, 97, 109, 95, 114, 101, 112, 108, 121, 95, 102, 97, 105, 108, 101, 100, 32, 40>> \o error_message \o <<41, 46>>
                 ELSE outcome.text
         IN  [ok |-> error_message = << >>,
              reply |-> clamp_reply(sanitize_punctuation(reply_text), DEFAULT_MAX_BYTES),
              error |-> error_message]

MessageInputs == Messages \cup {""}
ReqIdInputs == {"", "r1"}
PaddedReqIds == ReqIdInputs \cup {" r1 "}
ObjectKeyInputs == ObjectKeys \cup {""}
NoPayload == [ok |-> FALSE, reply |-> << >>, error |-> << >>]

(***************************************************************************)
(* The turn orchestrator, run_chat_logic: conversation continuity,         *)
(* invalid-handle recovery, the stateless fallback and the turn log.       *)
(* Profile cards and thread metadata (last_seen, profile fingerprint) are  *)
(* personalisation data that no step below reads; they are not part of     *)
(* the state.  A remote conversation is known by the instructions it was   *)
(* created with.  The client library is the one the program is written     *)
(* for: it offers both responses and conversations.                        *)
(***************************************************************************)
MaxTurns == 2          \* turns recorded per (avatar, NPC) pair
MaxInstructions == 2   \* versions of the NPC's system text

\* hash_instructions: sha256 of the base instructions, taken as injective
hash_instructions(instructions) == <<"sha256", instructions>>

\* exceptions a call of the client library may raise: type name, str(exc)
\* and the status_code attribute (0 when the exception has none)
TimeoutExc ==
    [type |-> <<84, 105, 109, 101, 111, 117, 116, 69, 114, 114, 111, 114>>, message |-> <<116, 105, 109, 101, 100, 32, 111, 117, 116>>, status_code |-> 0]
NotFoundExc ==
    [type |-> <<78, 111, 116, 70, 111, 117, 110, 100, 69, 114, 114, 111, 114>>, message |-> <<103, 111, 110, 101>>, status_code |-> 404]
BadRequestExc ==
    [type |-> <<66, 97, 100, 82, 101, 113, 117, 101, 115, 116, 69, 114, 114, 111, 114>>, message |-> <<73, 110, 118, 97, 108, 105, 100, 32, 104, 97, 110, 100, 108, 101>>, status_code |-> 400]
Exceptions == {TimeoutExc, NotFoundExc, BadRequestExc}

Markers == {<<99, 111, 110, 118, 101, 114, 115, 97, 116, 105, 111, 110>>, <<110, 111, 116, 32, 102, 111, 117, 110, 100>>, <<105, 110, 118, 97, 108, 105, 100>>, <<110, 111, 32, 115, 117, 99, 104>>, <<109, 105, 115, 115, 105, 110, 103>>}

is_conversation_invalid(exc) ==
    \/ exc.status_code = 404
    \/ \E marker \in Markers : Contains(Lower(exc.message), marker)

\* f"{type(exc).__name__}: {exc}", which safe_error_reason cuts to 160
ExcReason(exc) == exc.type \o <<58, 32>> \o exc.message

\* what one request to the language model may do
Raises == {[kind |-> "raise", exc |-> e] : e \in Exceptions}
Answers(texts) == {[kind |-> "text", text |-> t] : t \in texts}

IsInvalid(o) == o.kind = "raise" /\ is_conversation_invalid(o.exc)
Class(o) ==
    IF o.kind = "raise" THEN IF is_conversation_invalid(o.exc) THEN "invalid" ELSE "raise"
    ELSE IF o.text = << >> THEN "empty" ELSE "text"

\* the outcome in the form ChatPayload reads
AsOutcome(o) ==
    IF o.kind = "raise" THEN [kind |-> "raise", text |-> ExcReason(o.exc)] ELSE o

\* load_history
load_history(k, last_n) ==
    IF last_n <= 0 THEN << >> ELSE LastN(history[k], last_n)

\* mutant: the quest context is not passed on
LlmMessage_NoContext(message, quest_context) == <<message>>

\* run_chat_logic lines 1193-1200: the quest context goes ahead of the message
LlmMessage(message, quest_context) ==
    IF IsNone(quest_context) THEN <<message>>
    ELSE <<"<<QUEST_CONTEXT>>\n", Val(quest_context),
           "\n<</QUEST_CONTEXT>>\nPlayer: ", message>>

\* build_messages
build_messages(events, llm_message) ==
    [i \in 1..Len(events) |->
        [role |-> IF events[i].direction = "in" THEN "user" ELSE "assistant",
         content |-> events[i].text]]
        \o <<[role |-> "user", content |-> llm_message]>>

\* request_openai: the call as the service sees it
ThreadCall(conversation_id, llm_message, o) ==
    [call |-> "thread", conversation |-> conversation_id,
     input |-> llm_message, result |-> Class(o)]
StatelessCall(k, llm_message, o) ==
    [call |-> "stateless", instructions |-> config.instructions,
     input |-> build_messages(load_history(k, config.max_history), llm_message),
     result |-> Class(o)]
CreateCall(instructions, ok) ==
    [call |-> "create", instructions |-> instructions, ok |-> ok]

\* mutant: a creation stores the handle and leaves the fingerprint as it is
Created_HandleOnly(entry, service) ==
    [entry |-> [entry EXCEPT !.conversation_id = Some(Len(service) + 1)],
     remote |-> Append(service, [seed |-> config.instructions])]

\* create_conversation_with_developer, save_conversation_id,
\* save_instructions_hash: the store and the service after a creation
Created(entry, service) ==
    [entry |-> [conversation_id |-> Some(Len(service) + 1),
                instructions_hash |-> Some(hash_instructions(config.instructions))],
     remote |-> Append(service, [seed |-> config.instructions])]

\* mutant: a handle stored under other instructions is kept
StoredThread_AnyHash(k, reset_conversation) ==
    IF reset_conversation THEN NoThread ELSE thread[k]

\* lines 1328-1336: what is left of the stored handle and hash
StoredThread(k, reset_conversation) ==
    LET kept == IF reset_conversation THEN NoThread ELSE thread[k]
    IN  IF kept.instructions_hash # Some(hash_instructions(config.instructions))
        THEN NoThread ELSE kept

\* lines 1326-1357: the handle the turn starts with
OpenConversation(k, reset_conversation) ==
    LET stored == StoredThread(k, reset_conversation)
    IN  IF ~IsNone(stored.conversation_id)
        THEN {[entry |-> stored, remote |-> remote,
               conversation_id |-> stored.conversation_id,
               failure |-> FALSE, calls |-> << >>]}
        ELSE LET made == Created(stored, remote)
             IN  {[entry |-> made.entry, remote |-> made.remote,
                   conversation_id |-> made.entry.conversation_id,
                   failure |-> FALSE,
                   calls |-> <<CreateCall(config.instructions, TRUE)>>],
                  [entry |-> stored, remote |-> remote, conversation_id |-> None,
                   failure |-> TRUE,
                   calls |-> <<CreateCall(config.instructions, FALSE)>>]}

\* the end of a turn's requests: store, service, calls made, last outcome
Ended(entry, service, calls, o) ==
    [entry |-> entry, remote |-> service, calls |-> calls, last |-> o]

\* mutant: an invalid handle is reported like any other failure
Requests_NoRecovery(c, k, llm_message, outcomes) ==
    IF ~IsNone(c.conversation_id) /\ ~c.failure
    THEN {Ended(c.entry, c.remote,
                Append(c.calls, ThreadCall(Val(c.conversation_id), llm_message, o)), o) :
             o \in outcomes}
    ELSE {Ended(c.entry, c.remote,
                Append(c.calls, StatelessCall(k, llm_message, o)), o) :
             o \in outcomes}

\* lines 1489-1530: the requests of the turn
Requests(c, k, llm_message, outcomes) ==
    IF ~IsNone(c.conversation_id) /\ ~c.failure
    THEN LET first(o) == Append(c.calls,
                                ThreadCall(Val(c.conversation_id), llm_message, o))
             dropped == [c.entry EXCEPT !.conversation_id = None]
             made == Created(dropped, c.remote)
             invalid == {o \in outcomes : IsInvalid(o)}
         IN  {Ended(c.entry, c.remote, first(o), o) :
                 o \in outcomes \ invalid}
             \cup
             {Ended(dropped, c.remote,
                    first(x.i) \o <<CreateCall(config.instructions, FALSE),
                                    StatelessCall(k, llm_message, x.o)>>, x.o) :
                 x \in [i : invalid, o : outcomes]}
             \cup
             {Ended(made.entry, made.remote,
                    first(x.i) \o <<CreateCall(config.instructions, TRUE),
                                    ThreadCall(Len(made.remote), llm_message, x.o)>>,
                    x.o) :
                 x \in [i : invalid, o : {o \in outcomes : o.kind = "text"}]}
             \cup
             {Ended(made.entry, made.remote,
                    first(x.i) \o <<CreateCall(config.instructions, TRUE),
                                    ThreadCall(Len(made.remote), llm_message, x.r),
                                    StatelessCall(k, llm_message, x.o)>>,
                    x.o) :
                 x \in [i : invalid, r : {o \in outcomes : o.kind = "raise"},
                        o : outcomes]}
    ELSE {Ended(c.entry, c.remote,
                Append(c.calls, StatelessCall(k, llm_message, o)), o) :
             o \in outcomes}

\* mutant: a failed turn records the user's message only
TurnEvents_FailureUnrecorded(message, payload) ==
    IF payload.ok
    THEN <<[direction |-> "in", text |-> message],
           [direction |-> "out", text |-> payload.reply, error |-> None]>>
    ELSE <<[direction |-> "in", text |-> message]>>

\* lines 1546-1572: the two events of a turn
TurnEvents(message, payload) ==
    <<[direction |-> "in", text |-> message],
      [direction |-> "out", text |-> payload.reply,
       error |-> IF payload.error = << >> THEN None ELSE Some(payload.error)]>>

MessageRequired ==
    [ok |-> FALSE, reply |-> <<69, 114, 114, 111, 114, 58, 32, 109, 101, 115, 115, 97, 103, 101, 95, 114, 101, 113, 117, 105, 114, 101, 100, 32, 40, 114, 101, 113, 117, 101, 115, 116, 95, 105, 100, 61, 48, 48, 48, 48, 48, 48, 48, 48, 41, 46>>, error |-> <<109, 101, 115, 115, 97, 103, 101, 95, 114, 101, 113, 117, 105, 114, 101, 100>>]

\* run_chat_logic: every way one turn may go.  has_key is OPENAI_API_KEY
\* being set, outcomes what a request to the model may do.
run_chat_logic(message, avatar_key, npc_id, quest_context, reset_conversation, has_key, outcomes) ==
    LET k == <<avatar_key, npc_id>>
        same(payload, status) ==
            [entry |-> thread[k], remote |-> remote, events |-> << >>,
             calls |-> << >>, payload |-> payload, status |-> status]
    IN  IF message = << >>
        THEN {same(MessageRequired, 400)}
        ELSE IF ~has_key
        THEN {same(ChatPayload([kind |-> "no_key", text |-> << >>]), 500)}
        ELSE {LET payload == ChatPayload(AsOutcome(e.last))
              IN  [entry |-> e.entry, remote |-> e.remote, calls |-> e.calls,
                   events |-> TurnEvents(message, payload),
                   payload |-> payload,
                   status |-> IF payload.ok THEN 200 ELSE 502] :
                 e \in UNION {Requests(c, k, LlmMessage(message, quest_context), outcomes) :
                                c \in OpenConversation(k, reset_conversation)}}

\* the writes of one turn
ApplyChat(avatar_key, npc_id, out) ==
    /\ thread' = [thread EXCEPT ![<<avatar_key, npc_id>>] = out.entry]
    /\ history' = [history EXCEPT ![<<avatar_key, npc_id>>] = @ \o out.events]
    /\ remote' = out.remote
    /\ UNCHANGED <<config, enrichVars>>

\* the worker thread of an accepted submission, before it runs
NewJob(message, avatar_key, npc_id, rid, url, token) ==
    [pc |-> "pre", message |-> message, avatar_key |-> avatar_key,
     npc_id |-> npc_id, client_req_id |-> rid,
     callback_url |-> url, callback_token |-> token,
     quest_context |-> None, local |-> None,
     pre |-> << >>, payload |-> NoPayload, post |-> << >>]

\* chat_async lines 2339, 2378-2380 and worker line 2494: the id the worker
\* reads from the request data, which holds the client's id as sent unless
\* that is blank
WorkerReqId(client_req_id, fresh) ==
    IF Strip(Text(client_req_id)) = << >> THEN UuidHex(fresh)
    ELSE Text(client_req_id)

\* chat_async lines 2339, 2378-2380 and 2416-2420: the id in the response
QueuedId(client_req_id, fresh) ==
    IF Strip(Text(client_req_id)) = << >> THEN UuidHex(fresh)
    ELSE Strip(Text(client_req_id))

\* the threads of jobs that are workers of chat_async
IsWorker(job) == "message" \in DOMAIN job

\* POST /chat_async
ChatAsync(message, avatar_key, object_key, npc_id, client_req_id, callback_token) ==
    /\ LET args == [message |-> message, avatar_key |-> avatar_key,
                    object_key |-> object_key, callback_token |-> callback_token]
       IN
       IF message = ""
       THEN /\ ret' = [op |-> "chat_async", args |-> args, status |-> 400, error |-> "message_required",
                       callback_token |-> 0]
            /\ UNCHANGED <<callbacks, nextUuid, jobs>>
       ELSE IF avatar_key = "" \/ object_key = "" \/ callback_token = 0
       THEN /\ ret' = [op |-> "chat_async", args |-> args, status |-> 400, error |-> "missing_fields",
                       callback_token |-> 0]
            /\ UNCHANGED <<callbacks, nextUuid, jobs>>
       ELSE LET pruned == prune_callbacks(callbacks, now)
                callback_entry == pruned[<<object_key, npc_id>>]
            IN  /\ callbacks' = pruned
                /\ IF IsNone(callback_entry)
                   THEN /\ ret' = [op |-> "chat_async", args |-> args, status |-> 409,
                                   error |-> "callback_not_registered",
                                   key |-> <<object_key, npc_id>>,
                                   callback_token |-> callback_token]
                        /\ UNCHANGED <<nextUuid, jobs>>
                   ELSE IF Val(callback_entry).token # callback_token
                   THEN /\ ret' = [op |-> "chat_async", args |-> args, status |-> 403,
                                   error |-> "callback_token_invalid",
                                   key |-> <<object_key, npc_id>>,
                                   callback_token |-> callback_token]
                        /\ UNCHANGED <<nextUuid, jobs>>
                   ELSE LET sent == Strip(Text(client_req_id))
                        IN  /\ Len(SelectSeq(jobs, IsWorker)) < MaxJobs
                            /\ ret' = [op |-> "chat_async", args |-> args, status |-> 200, error |-> "",
                                       key |-> <<object_key, npc_id>>,
                                       callback_token |-> callback_token,
                                       client_req_id |-> QueuedId(client_req_id, nextUuid)]
                            /\ nextUuid' = IF sent = << >> THEN nextUuid + 1 ELSE nextUuid
                            /\ jobs' = Append(jobs,
                                   NewJob(message, avatar_key, npc_id,
                                          WorkerReqId(client_req_id, nextUuid),
                                          Val(callback_entry).url,
                                          Val(callback_entry).token))
    /\ UNCHANGED <<now, pool, player, nextQuestId, fnVars, pkgCache, issued, posted>>
    /\ UNCHANGED <<chatVars, enrichVars>>

\* mutant: an exception of a quest hook ends the worker thread
AfterHook_Uncaught(failed, next) == IF failed THEN "dead" ELSE next

\* worker lines 2454-2457 and 2466-2469: each quest hook runs inside
\* try/except Exception, so the worker goes on to its next step whether
\* or not the hook raised
AfterHook(failed, next) == next

\* worker lines 2453-2458: quest_pre_chat, or pre = {} when it raised
WorkerPre(i) ==
    /\ i \in 1..Len(jobs)
    /\ jobs[i].pc = "pre"
    /\ \/ \E out \in quest_pre_chat(jobs[i].avatar_key, jobs[i].message) :
             /\ ApplyPreChat(jobs[i].avatar_key, out)
             /\ jobs' = [jobs EXCEPT ![i].pc = AfterHook(FALSE, "chat"),
                                     ![i].pre = out.result.actions,
                                     ![i].quest_context = Some(out.result.quest_context)]
             /\ ret' = [op |-> "worker", step |-> "pre", job |-> i, failed |-> FALSE]
       \/ /\ UNCHANGED <<player, nextQuestId>>
          /\ jobs' = [jobs EXCEPT ![i].pc = AfterHook(TRUE, "chat")]
          /\ ret' = [op |-> "worker", step |-> "pre", job |-> i, failed |-> TRUE]
    /\ UNCHANGED <<now, pool, fnVars, callbacks, pkgCache, issued, nextUuid, posted>>
    /\ UNCHANGED <<chatVars, enrichVars>>

\* what the one request of a worker's turn does, given the outcome drawn
WorkerReply(outcome) ==
    IF outcome.kind = "raise" THEN [kind |-> "raise", exc |-> TimeoutExc]
    ELSE [kind |-> "text", text |-> outcome.text]

\* worker lines 2458-2463: run_chat_logic with the hook's quest context,
\* then pkg_cache_prune.  The quest context is not read after the turn.
\* outcomes is what the API key and the model may do to this turn.
WorkerChat(i, outcomes) ==
    /\ i \in 1..Len(jobs)
    /\ jobs[i].pc = "chat"
    /\ \E outcome \in outcomes :
          \E out \in run_chat_logic(Text(jobs[i].message), jobs[i].avatar_key,
                                    jobs[i].npc_id, jobs[i].quest_context, FALSE,
                                    outcome.kind # "no_key", {WorkerReply(outcome)}) :
             /\ ApplyChat(jobs[i].avatar_key, jobs[i].npc_id, out)
             /\ jobs' = [jobs EXCEPT ![i].pc = "post", ![i].payload = out.payload,
                                     ![i].quest_context = None]
             /\ ret' = [op |-> "worker", step |-> "chat", job |-> i,
                        status |-> out.status, calls |-> out.calls]
    /\ pkgCache' = pkg_cache_prune(pkgCache, now)
    /\ UNCHANGED <<now, pool, player, nextQuestId, fnVars,
                   callbacks, issued, nextUuid, posted>>

\* worker lines 2465-2469: quest_post_chat, or post = {} when it raised
WorkerPost(i) ==
    /\ i \in 1..Len(jobs)
    /\ jobs[i].pc = "post"
    /\ \/ LET out == quest_post_chat(jobs[i].avatar_key)
          IN  /\ ApplyPostChat(jobs[i].avatar_key, out)
              /\ jobs' = [jobs EXCEPT ![i].pc = AfterHook(FALSE, "deliver"), ![i].post = out.actions]
              /\ ret' = [op |-> "worker", step |-> "post", job |-> i, failed |-> FALSE]
       \/ /\ UNCHANGED player
          /\ jobs' = [jobs EXCEPT ![i].pc = AfterHook(TRUE, "deliver")]
          /\ ret' = [op |-> "worker", step |-> "post", job |-> i, failed |-> TRUE]
    /\ UNCHANGED <<now, pool, nextQuestId, fnVars,
                   callbacks, pkgCache, issued, nextUuid, posted>>
    /\ UNCHANGED <<chatVars, enrichVars>>

\* pack_actions
pack_actions(actions) ==
    LET kept == SelectSeq([i \in 1..Len(actions) |-> Strip(Text(actions[i]))],
                          LAMBDA a : a # << >>)
    IN  Flatten([i \in 1..(2 * Len(kept) - 1) |->
                    IF i % 2 = 1 THEN kept[(i + 1) \div 2] ELSE <<59>>],
                1, 2 * Len(kept) - 1)

Flag(ok) == IF ok THEN <<49>> ELSE <<48>>

\* worker lines 2491-2505: the result package
PkgBody(job) ==
    pack(<< <<<<86>>, Some(<<49>>)>>,
            <<<<84, 89, 80, 69>>, Some(<<80, 75, 71>>)>>,
            <<<<82, 73, 68>>, Some(job.client_req_id)>>,
            <<<<85, 83, 69, 82>>, Some(Text(job.avatar_key))>>,
            <<<<78, 80, 67>>, Some(Text(job.npc_id))>>,
            <<<<79, 75>>, Some(Flag(job.payload.ok))>>,
            <<<<67, 72, 65, 84>>, Some(Strip(job.payload.reply))>>,
            <<<<65, 67, 84>>, Some(pack_actions(job.pre \o job.post))>>,
            <<<<81>>, Some(Text(""))>>,
            <<<<67, 66>>, Some(UuidHex(job.callback_token))>>,
            <<<<69, 82, 82>>, Some(Strip(job.payload.error))>> >>)

\* worker lines 2511-2523: the fetch-indirection package
FetchBody(job, fetch_token) ==
    pack(<< <<<<86>>, Some(<<49>>)>>,
            <<<<84, 89, 80, 69>>, Some(<<70, 69, 84, 67, 72>>)>>,
            <<<<82, 73, 68>>, Some(job.client_req_id)>>,
            <<<<85, 83, 69, 82>>, Some(Text(job.avatar_key))>>,
            <<<<78, 80, 67>>, Some(Text(job.npc_id))>>,
            <<<<79, 75>>, Some(Flag(job.payload.ok))>>,
            <<<<84, 79, 75, 69, 78>>, Some(UuidHex(fetch_token))>>,
            <<<<67, 66>>, Some(UuidHex(job.callback_token))>>,
            <<<<69, 82, 82>>, Some(Strip(job.payload.error))>> >>)

\* mutant: a package of exactly the ceiling goes through the cache
FitsDirect_Below(pkg_body) == Len(pkg_body) < SAFE_CALLBACK_MAX

\* worker line 2507
FitsDirect(pkg_body) == Len(pkg_body) <= SAFE_CALLBACK_MAX

\* mutant: a failed POST is tried again
AfterPost_Retry(success) == IF success THEN "done" ELSE "deliver"

\* worker lines 2531-2540: whatever post_callback reports, the worker logs
\* it and ends
AfterPost(success) == "done"

\* worker lines 2471-2540: encode, store an oversized package, POST once to
\* the callback URL.  post_callback reports success or failure, and the
\* worker logs either.
WorkerDeliver(i) ==
    /\ i \in 1..Len(jobs)
    /\ jobs[i].pc = "deliver"
    /\ LET job == jobs[i]
           pkg_body == PkgBody(job)
       IN  IF FitsDirect(pkg_body)
           THEN /\ posted' = Append(posted,
                       [job |-> i, url |-> job.callback_url, token |-> job.callback_token,
                        body |-> pkg_body, pkg |-> pkg_body])
                /\ UNCHANGED <<pkgCache, issued, nextUuid>>
           ELSE LET entry == [token |-> nextUuid, body |-> pkg_body,
                              expires_at |-> now + PkgTtl]
                IN  /\ pkgCache' = pkgCache \cup {entry}
                    /\ issued' = issued \cup {entry}
                    /\ nextUuid' = nextUuid + 1
                    /\ posted' = Append(posted,
                           [job |-> i, url |-> job.callback_url,
                            token |-> job.callback_token,
                            body |-> FetchBody(job, nextUuid), pkg |-> pkg_body])
    /\ \E success \in BOOLEAN :
          /\ jobs' = [jobs EXCEPT ![i].pc = AfterPost(success)]
          /\ ret' = [op |-> "worker", step |-> "deliver", job |-> i, success |-> success]
    /\ UNCHANGED <<now, pool, player, nextQuestId, fnVars, callbacks>>
    /\ UNCHANGED <<chatVars, enrichVars>>

\* the clock of the asynchronous path: a tick, a package lifetime, a
\* callback lifetime
TickAsync ==
    /\ now % PkgTtl < MaxTicks
    /\ now' = now + 1
    /\ ret' = [op |-> "tick"]
    /\ UNCHANGED <<pool, player, nextQuestId, fnVars, asyncVars>>
    /\ UNCHANGED <<chatVars, enrichVars>>

TickPkgTtl ==
    /\ (now % CallbackTtl) \div PkgTtl < MaxPkgTtls
    /\ now' = now + PkgTtl
    /\ ret' = [op |-> "tick"]
    /\ UNCHANGED <<pool, player, nextQuestId, fnVars, asyncVars>>
    /\ UNCHANGED <<chatVars, enrichVars>>

TickCallbackTtl ==
    /\ (now - StartTime) \div CallbackTtl < MaxTtls
    /\ now' = now + CallbackTtl
    /\ ret' = [op |-> "tick"]
    /\ UNCHANGED <<pool, player, nextQuestId, fnVars, asyncVars>>
    /\ UNCHANGED <<chatVars, enrichVars>>

\* a player with no quest, or with a quest completed and not yet rewarded
DoneQuest ==
    [quest_id |-> 0, difficulty |-> 1,
     objectives |-> <<[object_id |-> 1, found |-> TRUE,
                       found_at |-> Some(now_iso(StartTime))]>>,
     status |-> "completed",
     reward_given |-> FALSE]

StartPlayers ==
    {[a \in Avatars |-> DefaultState],
     [a \in Avatars |-> [DefaultState EXCEPT !.current_quest = Some(DoneQuest)]]}

\* the registry and its gate: registrations, submissions (whose workers
\* are left waiting) and the clock
InitRegistry ==
    /\ now = StartTime
    /\ pool = [o \in QuestObjIds |-> NewEntry(o)]
    /\ player = [a \in Avatars |-> DefaultState]
    /\ nextQuestId = 1
    /\ ret = [op |-> "init"]
    /\ fnIn = [op |-> "none"] /\ fnOut = None
    /\ AsyncIdle
    /\ ChatIdle

TokenInputs == 0..MaxTokens

NextRegistry ==
    \/ TickAsync
    \/ TickCallbackTtl
    \/ \E object_key \in ObjectKeyInputs, npc_id \in NpcIds, url \in UrlInputs :
          SlCallbackRegister(object_key, npc_id, url)
    \/ \E message \in MessageInputs, avatar_key \in AvatarInputs,
          object_key \in ObjectKeyInputs, npc_id \in NpcIds,
          client_req_id \in ReqIdInputs, callback_token \in TokenInputs :
          ChatAsync(message, avatar_key, object_key, npc_id, client_req_id, callback_token)

SpecRegistry == InitRegistry /\ [][NextRegistry]_vars

\* the worker and the package cache, for an object that registered its
\* callback at StartTime
Registered ==
    [k \in CbKeys |-> Some([url |-> "http://a", token |-> 1, updated_at |-> StartTime])]

InitAsync ==
    /\ now = StartTime
    /\ pool = [o \in QuestObjIds |-> NewEntry(o)]
    /\ player \in StartPlayers
    /\ nextQuestId = 1
    /\ ret = [op |-> "init"]
    /\ fnIn = [op |-> "none"] /\ fnOut = None
    /\ callbacks = Registered
    /\ pkgCache = {}
    /\ issued = {}
    /\ nextUuid = 2
    /\ jobs = << >>
    /\ posted = << >>
    /\ ChatIdle

NextAsync ==
    \/ TickAsync
    \/ TickPkgTtl
    \/ \E message \in MessageInputs, avatar_key \in Avatars,
          object_key \in ObjectKeys, npc_id \in NpcIds,
          client_req_id \in ReqIdInputs, callback_token \in 1..MaxTokens :
          ChatAsync(message, avatar_key, object_key, npc_id, client_req_id, callback_token)
    \/ \E i \in 1..MaxJobs : WorkerPre(i)
    \/ \E i \in 1..MaxJobs : WorkerChat(i, LlmOutcomes)
    \/ \E i \in 1..MaxJobs : WorkerPost(i)
    \/ \E i \in 1..MaxJobs : WorkerDeliver(i)
    \/ \E token \in 0..nextUuid : SlFetch(token)

SpecAsync == InitAsync /\ [][NextAsync]_vars

\* registration, submission and the worker from end to end, for an object
\* that registers its callback, may let it expire, and submits turns whose
\* correlation id may be absent or padded with blanks
\* the outcomes of a turn whose reply is short
ShortOutcomes == {o \in LlmOutcomes : Len(o.text) < DEFAULT_MAX_BYTES \div 3}

InitWorker ==
    /\ now = StartTime
    /\ pool = [o \in QuestObjIds |-> NewEntry(o)]
    /\ player \in StartPlayers
    /\ nextQuestId = 1
    /\ ret = [op |-> "init"]
    /\ fnIn = [op |-> "none"] /\ fnOut = None
    /\ AsyncIdle
    /\ ChatIdle

NextWorker ==
    \/ TickCallbackTtl
    \/ \E object_key \in ObjectKeys, npc_id \in NpcIds :
          SlCallbackRegister(object_key, npc_id, "http://a")
    \/ \E message \in Messages, avatar_key \in Avatars,
          object_key \in ObjectKeys, npc_id \in NpcIds,
          client_req_id \in PaddedReqIds, callback_token \in 1..MaxTokens :
          ChatAsync(message, avatar_key, object_key, npc_id, client_req_id, callback_token)
    \/ \E i \in 1..MaxJobs : WorkerPre(i)
    \/ \E i \in 1..MaxJobs : WorkerChat(i, ShortOutcomes)
    \/ \E i \in 1..MaxJobs : WorkerPost(i)
    \/ \E i \in 1..MaxJobs : WorkerDeliver(i)

SpecWorker == InitWorker /\ [][NextWorker]_vars

(***************************************************************************)
(* generate_quest on its own: one call, and calls repeated after it, with  *)
(* arguments fixed at the start, for a player whose history and a pool     *)
(* whose content are the result of earlier play.                           *)
(***************************************************************************)
MaxGenObjects == 4   \* objects the pool of this specification may hold
MaxCompleted == 3    \* quests the player may have completed before

GenObjIds == 1..MaxGenObjects

\* an object last seen more than a staleness window before StartTime
StaleEntry(o) ==
    Some(PoolEntry(o, ((o - 1) % MaxDifficulty) + 1, "hidden",
                   StartTime - Window - SubSec))

\* pools with the first a objects active and, if there is room, one stale
GenPools ==
    {[o \in GenObjIds |-> IF o <= a THEN NewEntry(o)
                          ELSE IF o = a + 1 THEN StaleEntry(o) ELSE None] :
        a \in 0..MaxGenObjects}

\* histories: nothing completed yet, or some quests completed and their
\* objects remembered
GenHistories ==
    {DefaultState.history}
        \cup {[quests_completed |-> q, recent_objects |-> r] :
                q \in 1..MaxCompleted, r \in {<<1>>, <<2, 1>>}}

GenCountInputs == {None} \cup {Some(c) : c \in (-1)..MaxGenObjects}

GenArgs ==
    {[op |-> "generate_quest", avatar_key |-> a, difficulty |-> d, count |-> c] :
        a \in Avatars, d \in DifficultyInputs, c \in GenCountInputs}
    \cup {[op |-> "generate_quest", avatar_key |-> EmptyAvatar,
           difficulty |-> None, count |-> None]}

InitGen ==
    /\ now = StartTime
    /\ pool \in GenPools
    /\ \E h \in GenHistories :
          player = [a \in Avatars |-> [current_quest |-> None, history |-> h]]
    /\ nextQuestId = 1
    /\ ret = [op |-> "init"]
    /\ fnIn \in GenArgs
    /\ fnOut = None
    /\ AsyncIdle
    /\ ChatIdle

\* generate_quest called with the arguments of this behaviour
GenerateCall ==
    /\ fnIn.op = "generate_quest"
    /\ GenerateQuest(fnIn.avatar_key, fnIn.difficulty, fnIn.count)

NextGen == GenerateCall

SpecGen == InitGen /\ [][NextGen]_vars

(***************************************************************************)
(* POST /chat: turns of one avatar with one NPC, while the NPC's system    *)
(* text may be edited between turns.                                       *)
(***************************************************************************)
\* what a request to the model may do in this specification
ChatOutcomes == Answers({<<72, 105, 46>>, << >>}) \cup Raises

\* POST /chat, for a log of fewer than max_turns turns and a model that
\* may do what outcomes holds
ChatTurn(max_turns, outcomes, message, avatar_key, npc_id, reset_conversation, has_key) ==
    /\ Len(history[<<avatar_key, npc_id>>]) < 2 * max_turns
    /\ \E out \in run_chat_logic(Text(message), avatar_key, npc_id, None,
                                 reset_conversation, has_key, outcomes) :
          /\ ApplyChat(avatar_key, npc_id, out)
          /\ ret' = [op |-> "chat", avatar |-> avatar_key, npc_id |-> npc_id,
                     message |-> Text(message),
                     reset_conversation |-> reset_conversation,
                     status |-> out.status, payload |-> out.payload,
                     calls |-> out.calls]
    /\ UNCHANGED <<now, pool, player, nextQuestId, fnVars, asyncVars>>

\* POST /chat
Chat(message, avatar_key, npc_id, reset_conversation, has_key) ==
    ChatTurn(MaxTurns, ChatOutcomes, message, avatar_key, npc_id, reset_conversation, has_key)

\* POST /admin/npc/upsert: the NPC's system text is replaced
AdminNpcUpsert(instructions) ==
    /\ instructions # config.instructions
    /\ config' = [config EXCEPT !.instructions = instructions]
    /\ ret' = [op |-> "admin_npc_upsert"]
    /\ UNCHANGED <<now, pool, player, nextQuestId, fnVars, asyncVars,
                   thread, history, remote, enrichVars>>

HistoryLimits == {1, DefaultConfig.max_history}

InitChat ==
    /\ now = StartTime
    /\ pool = [o \in QuestObjIds |-> NewEntry(o)]
    /\ player = [a \in Avatars |-> DefaultState]
    /\ nextQuestId = 1
    /\ ret = [op |-> "init"]
    /\ fnIn = [op |-> "none"] /\ fnOut = None
    /\ AsyncIdle
    /\ thread = [k \in ThreadKeys |-> NoThread]
    /\ history = [k \in ThreadKeys |-> << >>]
    /\ remote = << >>
    /\ config \in [instructions : {1}, max_history : HistoryLimits]
    /\ EnrichIdle

NextChat ==
    \/ \E message \in {"hello", ""}, avatar_key \in Avatars, npc_id \in NpcIds,
          reset_conversation \in BOOLEAN, has_key \in BOOLEAN :
          Chat(message, avatar_key, npc_id, reset_conversation, has_key)
    \/ \E instructions \in 1..MaxInstructions : AdminNpcUpsert(instructions)

SpecChat == InitChat /\ [][NextChat]_vars

(***************************************************************************)
(* A long conversation: one avatar keeps talking to one NPC, and every     *)
(* turn that reaches the model is answered.                                *)
(***************************************************************************)
MaxLogTurns == 26     \* turns of the long conversation
MaxHistoryEvents == 50  \* line 1279: the most events a turn ever reads back

InitLog ==
    /\ now = StartTime
    /\ pool = [o \in QuestObjIds |-> NewEntry(o)]
    /\ player = [a \in Avatars |-> DefaultState]
    /\ nextQuestId = 1
    /\ ret = [op |-> "init"]
    /\ fnIn = [op |-> "none"] /\ fnOut = None
    /\ AsyncIdle
    /\ thread = [k \in ThreadKeys |-> NoThread]
    /\ history = [k \in ThreadKeys |-> << >>]
    /\ remote = << >>
    /\ config \in [instructions : {1}, max_history : HistoryLimits]
    /\ EnrichIdle

NextLog ==
    \E reset_conversation \in BOOLEAN, has_key \in BOOLEAN :
        ChatTurn(MaxLogTurns, Answers({<<72, 105, 46>>}), "hello", "av1", "npc1",
                 reset_conversation, has_key)

SpecLog == InitLog /\ [][NextLog]_vars

(***************************************************************************)
(* The four handlers that validate their input, run against a server that  *)
(* already holds a registration, a cached package, a conversation and a    *)
(* turn log                                                                *)
(***************************************************************************)
\* a package left in the cache by an earlier delivery
CachedPackage ==
    [token |-> MaxTokens + 1, body |-> Text("hello"), expires_at |-> StartTime + PkgTtl]

\* a registration made longer ago than CALLBACK_TTL_SECONDS and not yet
\* pruned: the registry is pruned only when a handler reads it
StaleRegistered ==
    [k \in CbKeys |-> Some([url |-> "http://a", token |-> 1,
                            updated_at |-> StartTime - CallbackTtl - 1])]

\* chat/<avatar>/<npc>/ after one answered turn
OneTurn ==
    TurnEvents(Text("hello"), [ok |-> TRUE, reply |-> <<72, 105, 46>>, error |-> << >>])

InitValidation ==
    /\ now = StartTime
    /\ pool = [o \in QuestObjIds |-> NewEntry(o)]
    /\ player \in StartPlayers
    /\ nextQuestId = 1
    /\ ret = [op |-> "init"]
    /\ fnIn = [op |-> "none"] /\ fnOut = None
    /\ callbacks = StaleRegistered
    /\ pkgCache = {CachedPackage}
    /\ issued = {CachedPackage}
    /\ nextUuid = 2
    /\ jobs = << >>
    /\ posted = << >>
    /\ thread = [k \in ThreadKeys |->
                    [conversation_id |-> Some(1),
                     instructions_hash |-> Some(hash_instructions(DefaultConfig.instructions))]]
    /\ history = [k \in ThreadKeys |-> OneTurn]
    /\ remote = <<[seed |-> DefaultConfig.instructions]>>
    /\ config = DefaultConfig
    /\ EnrichIdle

NextValidation ==
    \/ \E object_key \in ObjectKeyInputs, npc_id \in NpcIds, url \in UrlInputs :
          SlCallbackRegister(object_key, npc_id, url)
    \/ \E message \in MessageInputs, avatar_key \in AvatarInputs,
          object_key \in ObjectKeyInputs, npc_id \in NpcIds,
          callback_token \in TokenInputs :
          ChatAsync(message, avatar_key, object_key, npc_id, "r1", callback_token)
    \/ \E message \in {"hello", ""}, avatar_key \in Avatars, npc_id \in NpcIds :
          Chat(message, avatar_key, npc_id, FALSE, TRUE)
    \/ \E object_id \in QuestObjIds \cup {EmptyId}, difficulty \in Difficulties,
          category \in Categories :
          PoolRegister(object_id, difficulty, category)

SpecValidation == InitValidation /\ [][NextValidation]_vars

(***************************************************************************)
(* Workers side by side.  Each accepted submission runs in a thread of its *)
(* own, and the quest engine takes no lock: quest_post_chat reads the      *)
(* player file, decides, and writes it back, and another thread may run    *)
(* between the read and the write.                                         *)
(***************************************************************************)
MaxRacers == 2       \* submissions accepted before any of their workers ran

\* quest_post_chat line 479: load_player_state
PostLoad(i) ==
    /\ i \in 1..Len(jobs)
    /\ jobs[i].pc = "post"
    /\ jobs' = [jobs EXCEPT ![i].pc = "post_save",
                            ![i].local = Some(load_player_state(jobs[i].avatar_key))]
    /\ ret' = [op |-> "worker", step |-> "post_load", job |-> i]
    /\ UNCHANGED <<now, pool, player, nextQuestId, fnVars,
                   callbacks, pkgCache, issued, nextUuid, posted>>
    /\ UNCHANGED <<chatVars, enrichVars>>

\* quest_post_chat lines 480-516, on the state read at line 479
PostSave(i) ==
    /\ i \in 1..Len(jobs)
    /\ jobs[i].pc = "post_save"
    /\ LET out == PostChatOn(Val(jobs[i].local))
       IN  /\ ApplyPostChat(jobs[i].avatar_key, out)
           /\ jobs' = [jobs EXCEPT ![i].pc = "deliver", ![i].post = out.actions,
                                   ![i].local = None]
           /\ ret' = [op |-> "worker", step |-> "post_save", job |-> i]
    /\ UNCHANGED <<now, pool, nextQuestId, fnVars,
                   callbacks, pkgCache, issued, nextUuid, posted>>
    /\ UNCHANGED <<chatVars, enrichVars>>

\* the submissions accepted, for the same avatar and object
Racers ==
    [i \in 1..MaxRacers |->
        NewJob("hello", "av1", "npc1", UuidHex(i), "http://a", 1)]

InitRace ==
    /\ now = StartTime
    /\ pool = [o \in QuestObjIds |-> NewEntry(o)]
    /\ player \in StartPlayers
    /\ nextQuestId = 1
    /\ ret = [op |-> "init"]
    /\ fnIn = [op |-> "none"] /\ fnOut = None
    /\ callbacks = Registered
    /\ pkgCache = {}
    /\ issued = {}
    /\ nextUuid = MaxRacers + 1
    /\ jobs = Racers
    /\ posted = << >>
    /\ ChatIdle

NextRace ==
    \/ \E i \in 1..MaxRacers : WorkerPre(i)
    \/ \E i \in 1..MaxRacers : WorkerChat(i, Answers({<<72, 105, 46>>}))
    \/ \E i \in 1..MaxRacers : PostLoad(i)
    \/ \E i \in 1..MaxRacers : PostSave(i)
    \/ \E i \in 1..MaxRacers : WorkerDeliver(i)

SpecRace == InitRace /\ [][NextRace]_vars

(***************************************************************************)
(* Reward grants for a player with a long record: the recent-object list   *)
(* is empty, one short of MAX_RECENT_OBJECTS or full, and the pool holds   *)
(* the oldest object of that list and objects the player has not seen.     *)
(***************************************************************************)
MaxNewObjects == 2   \* pool objects that are not in the recent-object list

\* recent_objects after earlier play: the ids 1..n, oldest first
RecentRun(n) == [i \in 1..n |-> i]
GrantObjIds == {1} \cup (MAX_RECENT_OBJECTS + 1)..(MAX_RECENT_OBJECTS + MaxNewObjects)
GrantPlayers ==
    {[a \in Avatars |->
        [current_quest |-> None,
         history |-> [quests_completed |-> n, recent_objects |-> RecentRun(n)]]] :
     n \in {0, MAX_RECENT_OBJECTS - 1, MAX_RECENT_OBJECTS}}

InitGrant ==
    /\ now = StartTime
    /\ pool = [o \in GrantObjIds |-> NewEntry(o)]
    /\ player \in GrantPlayers
    /\ nextQuestId = 1
    /\ ret = [op |-> "init"]
    /\ fnIn = [op |-> "none"] /\ fnOut = None
    /\ AsyncIdle
    /\ ChatIdle

NextGrant ==
    \/ \E a \in Avatars, m \in Messages : QuestPreChat(a, m)
    \/ \E a \in Avatars, o \in GrantObjIds : HandleQuestEvent(a, o)
    \/ \E a \in Avatars : QuestPostChat(a)

SpecGrant == InitGrant /\ [][NextGrant]_vars

(***************************************************************************)
(* The chat hooks and quest events of one avatar, with messages that hold  *)
(* a keyword in capitals or inside another word                            *)
(***************************************************************************)
HookMessages == Messages \cup {"QUEST?", "look"}

InitHook ==
    /\ now = StartTime
    /\ pool \in StartPools
    /\ player \in StartPlayers
    /\ nextQuestId = 1
    /\ ret = [op |-> "init"]
    /\ fnIn = [op |-> "none"] /\ fnOut = None
    /\ AsyncIdle
    /\ ChatIdle

NextHook ==
    \/ \E a \in Avatars, m \in HookMessages : QuestPreChat(a, m)
    \/ \E a \in Avatars, o \in QuestObjIds : HandleQuestEvent(a, o)
    \/ \E a \in Avatars : QuestPostChat(a)

SpecHook == InitHook /\ [][NextHook]_vars

(***************************************************************************)
(* /pool/register requests side by side.  Each request runs in a thread of *)
(* the server; the handler reads objects.json, sets the entry and writes   *)
(* the file back inside "with POOL_LOCK".  A thread is in that block       *)
(* while its pc is "locked".                                               *)
(***************************************************************************)
MaxRegistrants == 3  \* /pool/register requests in flight together

\* mutant: the block is entered whoever holds the lock
PoolLockFree_Unguarded(ts) == TRUE

\* POOL_LOCK can be taken: no thread is inside the block
PoolLockFree(ts) == \A j \in 1..Len(ts) : ts[j].pc # "locked"

\* the requests that have taken POOL_LOCK so far
Entered(ts) == {j \in 1..Len(ts) : ts[j].pc # "start"}

\* a request that has arrived with a valid object_id
Registrant(object_id, difficulty) ==
    [pc |-> "start", object_id |-> object_id, difficulty |-> difficulty,
     local |-> None, turn |-> 0, wrote |-> None]

\* pool_register lines 2160-2161: POOL_LOCK is taken and the file is read
RegisterLoad(i) ==
    /\ i \in 1..Len(jobs)
    /\ jobs[i].pc = "start"
    /\ PoolLockFree(jobs)
    /\ jobs' = [jobs EXCEPT ![i].pc = "locked", ![i].local = Some(pool),
                            ![i].turn = Cardinality(Entered(jobs)) + 1]
    /\ ret' = [op |-> "pool_register", step |-> "load", job |-> i]
    /\ UNCHANGED <<now, pool, player, nextQuestId, fnVars,
                   callbacks, pkgCache, issued, nextUuid, posted>>
    /\ UNCHANGED <<chatVars, enrichVars>>

\* pool_register lines 2162-2175: the entry is set in the copy read, the
\* file is written and POOL_LOCK is released
RegisterSave(i) ==
    /\ i \in 1..Len(jobs)
    /\ jobs[i].pc = "locked"
    /\ LET entry == PoolEntry(jobs[i].object_id, jobs[i].difficulty, "hidden", now)
       IN  /\ pool' = [Val(jobs[i].local) EXCEPT ![jobs[i].object_id] = Some(entry)]
           /\ jobs' = [jobs EXCEPT ![i].pc = "done", ![i].local = None,
                                   ![i].wrote = Some(entry)]
    /\ ret' = [op |-> "pool_register", step |-> "save", job |-> i]
    /\ UNCHANGED <<now, player, nextQuestId, fnVars,
                   callbacks, pkgCache, issued, nextUuid, posted>>
    /\ UNCHANGED <<chatVars, enrichVars>>

InitPoolRace ==
    /\ now = StartTime
    /\ pool \in StartPools
    /\ player = [a \in Avatars |-> DefaultState]
    /\ nextQuestId = 1
    /\ ret = [op |-> "init"]
    /\ fnIn = [op |-> "none"] /\ fnOut = None
    /\ callbacks = [k \in CbKeys |-> None]
    /\ pkgCache = {}
    /\ issued = {}
    /\ nextUuid = 1
    /\ jobs \in [1..MaxRegistrants ->
                    {Registrant(o, d) : o \in QuestObjIds, d \in Difficulties}]
    /\ posted = << >>
    /\ ChatIdle

NextPoolRace ==
    \/ TickSecond
    \/ \E i \in 1..MaxRegistrants : RegisterLoad(i)
    \/ \E i \in 1..MaxRegistrants : RegisterSave(i)

SpecPoolRace == InitPoolRace /\ [][NextPoolRace]_vars

(***************************************************************************)
(* The package cache over two deliveries: a package left by an earlier     *)
(* worker is in the cache when the worker of a later submission runs.      *)
(***************************************************************************)
\* the entries of a cache whose expires_at lies before t
Expired(cache, t) == {e \in cache : e.expires_at < t}

InitCache ==
    /\ now = StartTime
    /\ pool = [o \in QuestObjIds |-> NewEntry(o)]
    /\ player = [a \in Avatars |-> DefaultState]
    /\ nextQuestId = 1
    /\ ret = [op |-> "init"]
    /\ fnIn = [op |-> "none"] /\ fnOut = None
    /\ callbacks = Registered
    /\ pkgCache = {CachedPackage}
    /\ issued = {CachedPackage}
    /\ nextUuid = MaxTokens + 2
    /\ jobs = <<NewJob("hello", "av1", "npc1", UuidHex(1), "http://a", 1)>>
    /\ posted = << >>
    /\ ChatIdle

NextCache ==
    \/ TickAsync
    \/ TickPkgTtl
    \/ WorkerPre(1)
    \/ WorkerChat(1, LlmOutcomes)
    \/ WorkerPost(1)
    \/ WorkerDeliver(1)
    \/ \E token \in 0..nextUuid : SlFetch(token)

SpecCache == InitCache /\ [][NextCache]_vars

(***************************************************************************)
(* A turn from its submission to its callback POST.  The object holds a    *)
(* registration; its submission is accepted and the thread of the worker   *)
(* is started at once (line 2542).  Nothing holds a reference to the       *)
(* thread, and the registration may expire, be renewed, or be replaced by  *)
(* one for another URL while it runs.                                      *)
(***************************************************************************)
InitDispatch ==
    /\ now = StartTime
    /\ pool = [o \in QuestObjIds |-> NewEntry(o)]
    /\ player \in StartPlayers
    /\ nextQuestId = 1
    /\ ret = [op |-> "init"]
    /\ fnIn = [op |-> "none"] /\ fnOut = None
    /\ callbacks = Registered
    /\ pkgCache = {}
    /\ issued = {}
    /\ nextUuid = 2
    /\ jobs = << >>
    /\ posted = << >>
    /\ ChatIdle

NextDispatch ==
    \/ TickCallbackTtl
    \/ \E url \in Urls : SlCallbackRegister("obj1", "npc1", url)
    \/ \E message \in Messages, callback_token \in 1..MaxTokens :
          ChatAsync(message, "av1", "obj1", "npc1", "r1", callback_token)
    \/ \E i \in 1..MaxJobs : WorkerPre(i)
    \/ \E i \in 1..MaxJobs : WorkerChat(i, ShortOutcomes)
    \/ \E i \in 1..MaxJobs : WorkerPost(i)
    \/ \E i \in 1..MaxJobs : WorkerDeliver(i)

SpecDispatch == InitDispatch /\ [][NextDispatch]_vars

\* worker i stands before the given step of its thread
At(i, pc) == i <= Len(jobs) /\ jobs[i].pc = pc

\* the thread of worker i is scheduled until it ends, and each of its
\* steps returns: the hooks and the turn work on local files, and the
\* outbound calls are made with a timeout.  This is weak fairness of each
\* of the four steps.  For the turn and the delivery it is written out,
\* WF_vars(A) being []<>~ENABLED <<A>>_vars \/ []<><<A>>_vars: a step of
\* the worker is enabled exactly while the worker stands before it, and
\* taking it changes the worker's pc.
WorkerRuns(i) ==
    /\ WF_vars(WorkerPre(i))
    /\ []<>~At(i, "chat") \/ []<><<WorkerChat(i, ShortOutcomes)>>_vars
    /\ WF_vars(WorkerPost(i))
    /\ []<>~At(i, "deliver") \/ []<><<WorkerDeliver(i)>>_vars

SpecDispatchFair == SpecDispatch /\ \A i \in 1..MaxJobs : WorkerRuns(i)

(***************************************************************************)
(* POST /quest/event for one avatar, between turns that may generate a     *)
(* quest and grant its reward.  The request's avatar_key and event are     *)
(* taken as sent without surrounding blanks.                               *)
(***************************************************************************)
BlankId == -1   \* an object id of blanks only, "  "

\* (data.get(field) or "").strip(), on object ids
StripId(object_id) == IF object_id = BlankId THEN EmptyId ELSE object_id

EventInputs == {"", "object_found", "cube_clicked", "wave"}
EventIdInputs == {EmptyId, BlankId, 1, 2}

\* quest_handle_event, as quest_event calls it
quest_handle_event(avatar_key, event, object_id) ==
    IF event \in {"object_found", "cube_clicked"}
    THEN handle_quest_event(avatar_key, object_id)
    ELSE [result |-> [op |-> "quest_handle_event", ok |-> TRUE, matched |-> FALSE],
          save |-> None]

\* quest_event lines 2253-2266: the fields whose absence is refused
EventRefused(avatar_key, event, object_id) == avatar_key = "" \/ event = ""

\* result.get(field, default)
Get(result, field, default) ==
    IF field \in DOMAIN result THEN result[field] ELSE default

\* POST /quest/event
QuestEvent(avatar_key, object_id_sent, object_key_sent, event) ==
    /\ LET sent == StripId(object_id_sent)
           object_id == IF sent = EmptyId THEN StripId(object_key_sent) ELSE sent
           args == [avatar_key |-> avatar_key, object_id |-> object_id_sent,
                    object_key |-> object_key_sent, event |-> event]
       IN  IF EventRefused(avatar_key, event, object_id)
           THEN /\ ret' = [op |-> "quest_event", args |-> args, object_id |-> object_id,
                           status |-> 400, ok |-> FALSE, error |-> "missing_fields"]
                /\ UNCHANGED player
           ELSE LET out == IF event = "object_found"
                           THEN handle_quest_event(avatar_key, object_id)
                           ELSE quest_handle_event(avatar_key, event, object_id)
                IN  /\ ApplyEvent(avatar_key, out)
                    /\ ret' = [op |-> "quest_event", args |-> args, object_id |-> object_id,
                               status |-> 200, ok |-> TRUE, error |-> "",
                               matched |-> Get(out.result, "matched", FALSE),
                               quest_completed |-> Get(out.result, "quest_completed", FALSE),
                               found_count |-> Get(out.result, "found_count", None),
                               total_count |-> Get(out.result, "total_count", None),
                               engine |-> out.result]
    /\ UNCHANGED <<now, pool, nextQuestId, fnVars, asyncVars>>
    /\ UNCHANGED <<chatVars, enrichVars>>

InitEvent ==
    /\ now = StartTime
    /\ pool = [o \in QuestObjIds |-> NewEntry(o)]
    /\ player \in StartPlayers
    /\ nextQuestId = 1
    /\ ret = [op |-> "init"]
    /\ fnIn = [op |-> "none"] /\ fnOut = None
    /\ AsyncIdle
    /\ ChatIdle

NextEvent ==
    \/ \E a \in Avatars, m \in Messages : QuestPreChat(a, m)
    \/ \E a \in AvatarInputs, o \in EventIdInputs, k \in EventIdInputs, e \in EventInputs :
          QuestEvent(a, o, k, e)
    \/ \E a \in Avatars : QuestPostChat(a)

SpecEvent == InitEvent /\ [][NextEvent]_vars

(***************************************************************************)
(* Quest events side by side.  Each /quest/event request runs in a thread  *)
(* of the server, and handle_quest_event takes no lock: it reads the       *)
(* player file, marks the objective in its copy and writes the copy back.  *)
(***************************************************************************)
MaxEvents == 2       \* object_found events in flight together

\* a quest with two objectives, none found yet
TwoObjectives ==
    [quest_id |-> 0, difficulty |-> 2,
     objectives |-> <<NewObjective(1), NewObjective(2)>>,
     status |-> "active",
     reward_given |-> FALSE]

\* the thread of an object_found event that has arrived
EventThread(avatar_key, object_id) ==
    [pc |-> "event", avatar_key |-> avatar_key, object_id |-> object_id,
     local |-> None, result |-> None]

\* handle_quest_event line 280: load_player_state
EventLoad(i) ==
    /\ i \in 1..Len(jobs)
    /\ jobs[i].pc = "event"
    /\ jobs' = [jobs EXCEPT ![i].pc = "event_save",
                            ![i].local = Some(load_player_state(jobs[i].avatar_key))]
    /\ ret' = [op |-> "handle_quest_event", step |-> "load", job |-> i]
    /\ UNCHANGED <<now, pool, player, nextQuestId, fnVars,
                   callbacks, pkgCache, issued, nextUuid, posted>>
    /\ UNCHANGED <<chatVars, enrichVars>>

\* handle_quest_event lines 281-329, on the state read at line 280
EventSave(i) ==
    /\ i \in 1..Len(jobs)
    /\ jobs[i].pc = "event_save"
    /\ LET out == EventOn(Val(jobs[i].local), jobs[i].avatar_key, jobs[i].object_id)
       IN  /\ ApplyEvent(jobs[i].avatar_key, out)
           /\ jobs' = [jobs EXCEPT ![i].pc = "done", ![i].local = None,
                                   ![i].result = Some(out.result)]
           /\ ret' = [op |-> "handle_quest_event", step |-> "save", job |-> i]
    /\ UNCHANGED <<now, pool, nextQuestId, fnVars,
                   callbacks, pkgCache, issued, nextUuid, posted>>
    /\ UNCHANGED <<chatVars, enrichVars>>

InitEventRace ==
    /\ now = StartTime
    /\ pool = [o \in QuestObjIds |-> NewEntry(o)]
    /\ player = [a \in Avatars |->
                    [DefaultState EXCEPT !.current_quest = Some(TwoObjectives)]]
    /\ nextQuestId = 1
    /\ ret = [op |-> "init"]
    /\ fnIn = [op |-> "none"] /\ fnOut = None
    /\ callbacks = [k \in CbKeys |-> None]
    /\ pkgCache = {}
    /\ issued = {}
    /\ nextUuid = 1
    /\ jobs \in [1..MaxEvents -> {EventThread("av1", o) : o \in QuestObjIds}]
    /\ posted = << >>
    /\ ChatIdle

NextEventRace ==
    \/ TickSecond
    \/ \E i \in 1..MaxEvents : EventLoad(i)
    \/ \E i \in 1..MaxEvents : EventSave(i)

SpecEventRace == InitEventRace /\ [][NextEventRace]_vars

(***************************************************************************)
(* Quest events and a worker side by side, for an avatar whose quest has   *)
(* one objective.  The events and the hooks of the worker each read the    *)
(* player file and write it back, with no lock.                            *)
(***************************************************************************)
\* a quest with one objective, not found yet
OneObjective ==
    [quest_id |-> 0, difficulty |-> 1,
     objectives |-> <<NewObjective(1)>>,
     status |-> "active",
     reward_given |-> FALSE]

\* the threads in flight: two object_found events and the worker of a turn
LifeThreads ==
    {<<EventThread("av1", 1), EventThread("av1", o),
       NewJob("hello", "av1", "npc1", UuidHex(1), "http://a", 1)>> : o \in QuestObjIds}

InitLifeRace ==
    /\ now = StartTime
    /\ pool = [o \in QuestObjIds |-> NewEntry(o)]
    /\ player = [a \in Avatars |->
                    [DefaultState EXCEPT !.current_quest = Some(OneObjective)]]
    /\ nextQuestId = 1
    /\ ret = [op |-> "init"]
    /\ fnIn = [op |-> "none"] /\ fnOut = None
    /\ callbacks = Registered
    /\ pkgCache = {}
    /\ issued = {}
    /\ nextUuid = 2
    /\ jobs \in LifeThreads
    /\ posted = << >>
    /\ ChatIdle

NextLifeRace ==
    \/ \E i \in 1..2 : EventLoad(i)
    \/ \E i \in 1..2 : EventSave(i)
    \/ WorkerPre(3)
    \/ WorkerChat(3, Answers({<<72, 105, 46>>}))
    \/ PostLoad(3)
    \/ PostSave(3)
    \/ WorkerDeliver(3)

SpecLifeRace == InitLifeRace /\ [][NextLifeRace]_vars

(***************************************************************************)
(* The body a worker posts, for the correlation ids a client may send:     *)
(* chat_async takes client_req_id from the request as it is, whatever its  *)
(* length, and the worker copies it into the package and into the          *)
(* fetch-indirection package.                                              *)
(***************************************************************************)
\* a correlation id as long as the ceiling of a callback body
LongId == Rep(SAFE_CALLBACK_MAX, 120)

\* the ids of the accepted submissions: a client's short id, the id the
\* server makes up for a request without one, a client's long id
BodyReqIds == {Text("r1"), UuidHex(1), LongId}

InitBody ==
    /\ now = StartTime
    /\ pool = [o \in QuestObjIds |-> NewEntry(o)]
    /\ player \in StartPlayers
    /\ nextQuestId = 1
    /\ ret = [op |-> "init"]
    /\ fnIn = [op |-> "none"] /\ fnOut = None
    /\ callbacks = Registered
    /\ pkgCache = {}
    /\ issued = {}
    /\ nextUuid = 2
    /\ jobs \in {<<NewJob("hello", "av1", "npc1", rid, "http://a", 1)>> : rid \in BodyReqIds}
    /\ posted = << >>
    /\ ChatIdle

NextBody ==
    \/ WorkerPre(1)
    \/ WorkerChat(1, LlmOutcomes)
    \/ WorkerPost(1)
    \/ WorkerDeliver(1)

SpecBody == InitBody /\ [][NextBody]_vars

(***************************************************************************)
(* Concurrent registrations of one (object, NPC) pair.  The handler reads  *)
(* the registry (get_callback) and writes it (set_callback) under          *)
(* CALLBACKS_LOCK, which it releases in between.                           *)
(***************************************************************************)
MaxCallers == 2      \* concurrent /sl/callback/register requests

\* a request that passed the checks of its fields and has not read the
\* registry yet
Caller(object_key, npc_id, callback_url) ==
    [pc |-> "get", object_key |-> object_key, npc_id |-> npc_id,
     callback_url |-> callback_url, local |-> None, callback_token |-> 0]

\* sl_callback_register line 2056: get_callback prunes the registry and
\* returns a copy of the entry
CallerGet(i) ==
    /\ i \in 1..Len(jobs)
    /\ jobs[i].pc = "get"
    /\ LET pruned == prune_callbacks(callbacks, now)
       IN  /\ callbacks' = pruned
           /\ jobs' = [jobs EXCEPT ![i].pc = "set",
                          ![i].local = Some(pruned[<<jobs[i].object_key, jobs[i].npc_id>>])]
    /\ ret' = [op |-> "sl_callback_register", step |-> "get", job |-> i]
    /\ UNCHANGED <<now, pool, player, nextQuestId, fnVars,
                   pkgCache, issued, nextUuid, posted>>
    /\ UNCHANGED <<chatVars, enrichVars>>

\* sl_callback_register lines 2057-2071: the token is kept or made from
\* the entry read, set_callback stores it, and the response carries it
CallerSet(i) ==
    /\ i \in 1..Len(jobs)
    /\ jobs[i].pc = "set"
    /\ LET callback_token ==
               RegisterToken(Val(jobs[i].local), jobs[i].callback_url, nextUuid)
       IN  /\ nextUuid' = IF callback_token = nextUuid THEN nextUuid + 1 ELSE nextUuid
           /\ callbacks' = [callbacks EXCEPT ![<<jobs[i].object_key, jobs[i].npc_id>>] =
                               Some([url |-> jobs[i].callback_url,
                                     token |-> callback_token, updated_at |-> now])]
           /\ jobs' = [jobs EXCEPT ![i].pc = "done", ![i].local = None,
                                   ![i].callback_token = callback_token]
           /\ ret' = [op |-> "sl_callback_register", step |-> "set", job |-> i,
                      status |-> 200, callback_token |-> callback_token]
    /\ UNCHANGED <<now, pool, player, nextQuestId, fnVars, pkgCache, issued, posted>>
    /\ UNCHANGED <<chatVars, enrichVars>>

InitRegRace ==
    /\ now = StartTime
    /\ pool = [o \in QuestObjIds |-> NewEntry(o)]
    /\ player = [a \in Avatars |-> DefaultState]
    /\ nextQuestId = 1
    /\ ret = [op |-> "init"]
    /\ fnIn = [op |-> "none"] /\ fnOut = None
    /\ \/ callbacks = [k \in CbKeys |-> None] /\ nextUuid = 1
       \/ callbacks = Registered /\ nextUuid = 2
    /\ pkgCache = {}
    /\ issued = {}
    /\ jobs \in [1..MaxCallers -> {Caller("obj1", "npc1", url) : url \in Urls}]
    /\ posted = << >>
    /\ ChatIdle

NextRegRace ==
    \/ \E i \in 1..MaxCallers : CallerGet(i)
    \/ \E i \in 1..MaxCallers : CallerSet(i)
    \/ \E callback_token \in 1..(2 * MaxCallers) :
          ChatAsync("hello", "av1", "obj1", "npc1", "r1", callback_token)

SpecRegRace == InitRegRace /\ [][NextRegRace]_vars

(***************************************************************************)
(* Two turns of one (avatar, NPC) pair whose replies are ready at the same *)
(* time.  Each turn appends its two events with append_history, which      *)
(* reads history.json, appends, and writes the file, with no lock.         *)
(***************************************************************************)
MaxTurnThreads == 2  \* concurrent turns of the pair

\* a turn at line 1571: its events are built and none is appended yet
TurnThread(avatar_key, npc_id, message, outcome) ==
    [pc |-> "load", avatar_key |-> avatar_key, npc_id |-> npc_id,
     events |-> TurnEvents(Text(message), ChatPayload(outcome)),
     appended |-> 0, local |-> None]

\* what the second turn's request to the model did
SecondOutcomes ==
    {[kind |-> "text", text |-> <<79, 107, 46>>],
     [kind |-> "raise", text |-> <<84, 105, 109, 101, 111, 117, 116, 69, 114, 114, 111, 114, 58, 32, 116, 105, 109, 101, 100, 32, 111, 117, 116>>]}

\* append_history lines 854-862: the file is read
AppendLoad(i) ==
    /\ i \in 1..Len(jobs)
    /\ jobs[i].pc = "load"
    /\ jobs' = [jobs EXCEPT ![i].pc = "write",
                   ![i].local = Some(history[<<jobs[i].avatar_key, jobs[i].npc_id>>])]
    /\ ret' = [op |-> "append_history", step |-> "load", job |-> i]
    /\ UNCHANGED <<now, pool, player, nextQuestId, fnVars,
                   callbacks, pkgCache, issued, nextUuid, posted>>
    /\ UNCHANGED <<chatVars, enrichVars>>

\* append_history lines 863-864: the event is appended to the list read
\* and the file is written; after the second event the turn goes on to
\* its response
AppendWrite(i) ==
    /\ i \in 1..Len(jobs)
    /\ jobs[i].pc = "write"
    /\ LET n == jobs[i].appended + 1
       IN  /\ history' = [history EXCEPT ![<<jobs[i].avatar_key, jobs[i].npc_id>>] =
                             Append(Val(jobs[i].local), jobs[i].events[n])]
           /\ jobs' = [jobs EXCEPT ![i].pc = IF n = Len(jobs[i].events) THEN "done" ELSE "load",
                                   ![i].appended = n, ![i].local = None]
    /\ ret' = [op |-> "append_history", step |-> "write", job |-> i]
    /\ UNCHANGED <<now, pool, player, nextQuestId, fnVars,
                   callbacks, pkgCache, issued, nextUuid, posted>>
    /\ UNCHANGED <<thread, remote, config, enrichVars>>

InitLogRace ==
    /\ now = StartTime
    /\ pool = [o \in QuestObjIds |-> NewEntry(o)]
    /\ player = [a \in Avatars |-> DefaultState]
    /\ nextQuestId = 1
    /\ ret = [op |-> "init"]
    /\ fnIn = [op |-> "none"] /\ fnOut = None
    /\ callbacks = [k \in CbKeys |-> None]
    /\ pkgCache = {}
    /\ issued = {}
    /\ nextUuid = 1
    /\ \E o \in SecondOutcomes :
          jobs = <<TurnThread("av1", "npc1", "hello", [kind |-> "text", text |-> <<72, 105, 46>>]),
                   TurnThread("av1", "npc1", "give me a quest", o)>>
    /\ posted = << >>
    /\ ChatIdle

NextLogRace ==
    \/ \E i \in 1..MaxTurnThreads : AppendLoad(i)
    \/ \E i \in 1..MaxTurnThreads : AppendWrite(i)

SpecLogRace == InitLogRace /\ [][NextLogRace]_vars

(***************************************************************************)
(* Turns, edits of the NPC's system text and admin resets of a             *)
(* conversation.                                                           *)
(***************************************************************************)
\* POST /admin/conversation/reset: authorized is the admin token passing
\* the test of line 1805
AdminConversationReset(authorized, avatar_uuid, npc_id) ==
    /\ IF ~authorized
       THEN /\ ret' = [op |-> "admin_conversation_reset", status |-> 403,
                       error |-> "forbidden", avatar |-> avatar_uuid, npc_id |-> npc_id]
            /\ UNCHANGED thread
       ELSE IF avatar_uuid = "" \/ npc_id = ""
       THEN /\ ret' = [op |-> "admin_conversation_reset", status |-> 400,
                       error |-> "missing_fields", avatar |-> avatar_uuid, npc_id |-> npc_id]
            /\ UNCHANGED thread
       ELSE /\ ret' = [op |-> "admin_conversation_reset", status |-> 200,
                       error |-> "", avatar |-> avatar_uuid, npc_id |-> npc_id]
            /\ thread' = [thread EXCEPT ![<<avatar_uuid, npc_id>>] = NoThread]
    /\ UNCHANGED <<now, pool, player, nextQuestId, fnVars, asyncVars,
                   history, remote, config, enrichVars>>

NextReset ==
    \/ \E message \in {"hello", ""}, avatar_key \in Avatars, npc_id \in NpcIds,
          reset_conversation \in BOOLEAN, has_key \in BOOLEAN :
          Chat(message, avatar_key, npc_id, reset_conversation, has_key)
    \/ \E instructions \in 1..MaxInstructions : AdminNpcUpsert(instructions)
    \/ \E authorized \in BOOLEAN, avatar_uuid \in AvatarInputs, npc_id \in NpcIds \cup {""} :
          AdminConversationReset(authorized, avatar_uuid, npc_id)

SpecReset == InitChat /\ [][NextReset]_vars

(***************************************************************************)
(* The profile enricher: POST /profile/enrich marks the avatar in          *)
(* IN_FLIGHT under IN_FLIGHT_LOCK and hands run_job to the executor, whose *)
(* worker threads run the jobs and unmark the avatar at their end.         *)
(***************************************************************************)
MaxEnrichJobs == 4   \* jobs handed to the executor in one behaviour
MAX_WORKERS == 3

EnrichAvatars == {"av1", "av2"}
EnrichInputs == EnrichAvatars \cup {""}

\* mutant: a job that raised leaves the marker in place
AfterJob_SuccessOnly(in_flight, avatar_uuid, raised) ==
    IF raised THEN in_flight ELSE in_flight \ {avatar_uuid}

\* run_job lines 68-70: the finally clause discards the marker, whether
\* get_or_create_profile_card returned or raised
AfterJob(in_flight, avatar_uuid, raised) == in_flight \ {avatar_uuid}

\* profile_enrich lines 37-50: the checks and the marking of the avatar
ProfileEnrich(avatar_uuid) ==
    /\ IF avatar_uuid = ""
       THEN /\ ret' = [op |-> "profile_enrich", avatar_uuid |-> avatar_uuid,
                       status |-> 400, ok |-> FALSE, started |-> FALSE]
            /\ UNCHANGED <<IN_FLIGHT, jobs>>
       ELSE IF avatar_uuid \in IN_FLIGHT
       THEN /\ ret' = [op |-> "profile_enrich", avatar_uuid |-> avatar_uuid,
                       status |-> 202, ok |-> TRUE, started |-> FALSE]
            /\ UNCHANGED <<IN_FLIGHT, jobs>>
       ELSE /\ Len(jobs) < MaxEnrichJobs
            /\ IN_FLIGHT' = IN_FLIGHT \cup {avatar_uuid}
            /\ jobs' = Append(jobs, [pc |-> "submit", avatar_uuid |-> avatar_uuid,
                                     raised |-> FALSE])
            /\ ret' = [op |-> "profile_enrich", avatar_uuid |-> avatar_uuid,
                       status |-> 202, ok |-> TRUE, started |-> TRUE]
    /\ UNCHANGED <<now, pool, player, nextQuestId, fnVars,
                   callbacks, pkgCache, issued, nextUuid, posted, chatVars>>

\* profile_enrich line 72: EXECUTOR.submit(run_job)
Submit(i) ==
    /\ i \in 1..Len(jobs)
    /\ jobs[i].pc = "submit"
    /\ jobs' = [jobs EXCEPT ![i].pc = "queued"]
    /\ ret' = [op |-> "submit", job |-> i]
    /\ UNCHANGED <<now, pool, player, nextQuestId, fnVars,
                   callbacks, pkgCache, issued, nextUuid, posted, chatVars, enrichVars>>

\* a free worker thread of the executor takes the job
RunJob(i) ==
    /\ i \in 1..Len(jobs)
    /\ jobs[i].pc = "queued"
    /\ Cardinality({j \in 1..Len(jobs) : jobs[j].pc = "running"}) < MAX_WORKERS
    /\ jobs' = [jobs EXCEPT ![i].pc = "running"]
    /\ ret' = [op |-> "run_job", job |-> i]
    /\ UNCHANGED <<now, pool, player, nextQuestId, fnVars,
                   callbacks, pkgCache, issued, nextUuid, posted, chatVars, enrichVars>>

\* run_job lines 53-70: get_or_create_profile_card returns or raises, and
\* the job ends
EndJob(i) ==
    /\ i \in 1..Len(jobs)
    /\ jobs[i].pc = "running"
    /\ \E raised \in BOOLEAN :
          /\ IN_FLIGHT' = AfterJob(IN_FLIGHT, jobs[i].avatar_uuid, raised)
          /\ jobs' = [jobs EXCEPT ![i].pc = "done", ![i].raised = raised]
          /\ ret' = [op |-> "run_job_end", job |-> i, raised |-> raised]
    /\ UNCHANGED <<now, pool, player, nextQuestId, fnVars,
                   callbacks, pkgCache, issued, nextUuid, posted, chatVars>>

InitEnrich ==
    /\ now = StartTime
    /\ pool = [o \in QuestObjIds |-> NewEntry(o)]
    /\ player = [a \in Avatars |-> DefaultState]
    /\ nextQuestId = 1
    /\ ret = [op |-> "init"]
    /\ fnIn = [op |-> "none"] /\ fnOut = None
    /\ AsyncIdle
    /\ ChatIdle

NextEnrich ==
    \/ \E avatar_uuid \in EnrichInputs : ProfileEnrich(avatar_uuid)
    \/ \E i \in 1..MaxEnrichJobs : Submit(i)
    \/ \E i \in 1..MaxEnrichJobs : RunJob(i)
    \/ \E i \in 1..MaxEnrichJobs : EndJob(i)

SpecEnrich == InitEnrich /\ [][NextEnrich]_vars

(***************************************************************************)
(* Properties of the quest engine                                          *)
(***************************************************************************)
CurrentQuest(a) == player[a].current_quest
ActiveNow(a) == Len(CurrentQuest(a)) = 1 /\ CurrentQuest(a)[1].status = "active"
CompletedNow(a) == Len(CurrentQuest(a)) = 1 /\ CurrentQuest(a)[1].status = "completed"
NumFound(q) == Cardinality({i \in 1..Len(q.objectives) : q.objectives[i].found})

\* C1: an avatar has at most one current quest, and generate_quest called
\* while that quest is active fails with already_has_active_quest, returns
\* the id of the existing quest and leaves quest and history as they were.
C1_GenerateOnActiveRefused ==
    /\ [](\A a \in Avatars : Len(CurrentQuest(a)) <= 1)
    /\ [][\A a \in Avatars :
            (ActiveNow(a) /\ ret'.op = "generate_quest" /\ ret'.avatar = a)
            => /\ ret'.ok = FALSE
               /\ ret'.error = "already_has_active_quest"
               /\ ret'.quest_id = <<CurrentQuest(a)[1].quest_id>>
               /\ player' = player]_vars

\* C1 witness: generate_quest has just been refused on a quest in progress
C1_Witness ==
    /\ ret.op = "generate_quest"
    /\ ret.error = "already_has_active_quest"
    /\ ActiveNow("av1")
    /\ NumFound(CurrentQuest("av1")[1]) = 1

\* C2: for an active quest, an event for an objective already marked found
\* reports matched = false, the same found_count as before, and leaves the
\* objective's found_at (indeed the whole stored quest) as it was.
C2_SecondFoundIdempotent ==
    [][\A a \in Avatars :
        (/\ ActiveNow(a)
         /\ ret'.op = "handle_quest_event" /\ ret'.avatar = a
         /\ \E i \in 1..Len(CurrentQuest(a)[1].objectives) :
               /\ CurrentQuest(a)[1].objectives[i].object_id = ret'.object_id
               /\ CurrentQuest(a)[1].objectives[i].found)
        => /\ ret'.matched = FALSE
           /\ ret'.found_count = NumFound(CurrentQuest(a)[1])
           /\ player'[a].current_quest = CurrentQuest(a)]_vars

\* C2 witness: a repeated event, one second or more after the first one
C2_Witness ==
    /\ ret.op = "handle_quest_event" /\ ret.avatar = "av1"
    /\ ret.matched = FALSE /\ ret.reason = "" /\ ret.error = ""
    /\ ActiveNow("av1")
    /\ \E i \in 1..Len(CurrentQuest("av1")[1].objectives) :
          /\ CurrentQuest("av1")[1].objectives[i].object_id = ret.object_id
          /\ CurrentQuest("av1")[1].objectives[i].found
          /\ CurrentQuest("av1")[1].objectives[i].found_at # <<now \div SubSec>>

\* C3: a quest is completed only with every objective found; an event that
\* is processed against the active quest leaves it completed exactly when
\* the found_count it reports equals total_count; the status of a quest
\* changes to completed in such an event only, and never back to active.
C3_CompletedIffAllFound ==
    /\ [](\A a \in Avatars :
            CompletedNow(a) =>
                NumFound(CurrentQuest(a)[1]) = Len(CurrentQuest(a)[1].objectives))
    /\ [][\A a \in Avatars :
            /\ (/\ ActiveNow(a)
                /\ ret'.op = "handle_quest_event" /\ ret'.avatar = a
                /\ ret'.error = "")
               => /\ Len(player'[a].current_quest) = 1
                  /\ player'[a].current_quest[1].quest_id = CurrentQuest(a)[1].quest_id
                  /\ ret'.found_count = NumFound(player'[a].current_quest[1])
                  /\ ret'.total_count = Len(player'[a].current_quest[1].objectives)
                  /\ ret'.quest_completed = (ret'.found_count = ret'.total_count)
                  /\ (player'[a].current_quest[1].status = "completed")
                        = (ret'.found_count = ret'.total_count)
                  /\ player'[a].current_quest[1].status \in {"active", "completed"}
            /\ (/\ ActiveNow(a)
                /\ Len(player'[a].current_quest) = 1
                /\ player'[a].current_quest[1].quest_id = CurrentQuest(a)[1].quest_id
                /\ player'[a].current_quest[1].status # "active")
               => /\ ret'.op = "handle_quest_event" /\ ret'.avatar = a
                  /\ ret'.found_count = ret'.total_count
            /\ (/\ CompletedNow(a)
                /\ Len(player'[a].current_quest) = 1
                /\ player'[a].current_quest[1].quest_id = CurrentQuest(a)[1].quest_id)
               => player'[a].current_quest[1].status = "completed"]_vars

\* C3 witness: the event that found the last of two objectives
C3_Witness ==
    /\ ret.op = "handle_quest_event" /\ ret.avatar = "av1"
    /\ ret.matched = TRUE /\ ret.quest_completed = TRUE
    /\ ret.found_count = 2 /\ ret.total_count = 2
    /\ CompletedNow("av1")

\* C4: after a quest is completed, the first quest_post_chat returns the
\* action Give:QUEST_REWARD; a quest_post_chat made directly after another
\* one for the same avatar returns no action and changes no state.
C4_RewardOnceOnRepeatedHook ==
    [][\A a \in Avatars :
        /\ (CompletedNow(a) /\ ret'.op = "quest_post_chat" /\ ret'.avatar = a)
           => ret'.actions = <<"Give:QUEST_REWARD">>
        /\ (/\ ret.op = "quest_post_chat" /\ ret.avatar = a
            /\ ret'.op = "quest_post_chat" /\ ret'.avatar = a)
           => /\ ret'.actions = << >>
              /\ player' = player]_vars

\* C4 witness: the second of two hooks in a row, the first of which rewarded
C4_Witness ==
    /\ ret.op = "quest_post_chat" /\ ret.avatar = "av1"
    /\ ret.prev_actions = << <<"Give:QUEST_REWARD">> >>
    /\ ret.actions = << >>
    /\ player["av1"].history.quests_completed = 1

(***************************************************************************)
(* Properties of the object pool                                           *)
(***************************************************************************)
\* age of a stored entry in ticks, for an entry with a parsed timestamp
Dated(o) == Len(pool[o]) = 1 /\ pool[o][1].last_seen.kind = "ts"
AgeTicks(o) == now - pool[o][1].last_seen.sec * SubSec

RECURSIVE C8_Split(_, _)
C8_Split(s, sep) ==
    LET at == {i \in 1..Len(s) : s[i] = sep}
    IN  IF at = {} THEN <<s>>
        ELSE LET i == CHOOSE j \in at : \A k \in at : j <= k
             IN  <<SubSeq(s, 1, i - 1)>> \o C8_Split(SubSeq(s, i + 1, Len(s)), sep)

C8_IsHex(c) == c \in 48..57 \/ c \in 65..70 \/ c \in 97..102
C8_HexVal(c) == IF c \in 48..57 THEN c - 48 ELSE IF c \in 65..70 THEN c - 55 ELSE c - 87

\* percent-unescaping, to bytes
RECURSIVE C8_UnquoteBytes(_)
C8_UnquoteBytes(s) ==
    IF s = << >> THEN << >>
    ELSE IF s[1] = 37 /\ Len(s) >= 3 /\ C8_IsHex(s[2]) /\ C8_IsHex(s[3])
    THEN <<16 * C8_HexVal(s[2]) + C8_HexVal(s[3])>> \o C8_UnquoteBytes(SubSeq(s, 4, Len(s)))
    ELSE Utf8(s[1]) \o C8_UnquoteBytes(SubSeq(s, 2, Len(s)))

C8_Cont(b, i) == i <= Len(b) /\ b[i] \in 128..191

\* UTF-8 decoding; a malformed byte becomes U+FFFD
RECURSIVE C8_Utf8Decode(_)
C8_Utf8Decode(b) ==
    IF b = << >> THEN << >>
    ELSE IF b[1] < 128 THEN <<b[1]>> \o C8_Utf8Decode(SubSeq(b, 2, Len(b)))
    ELSE IF b[1] \in 192..223 /\ C8_Cont(b, 2)
    THEN <<(b[1] - 192) * 64 + (b[2] - 128)>> \o C8_Utf8Decode(SubSeq(b, 3, Len(b)))
    ELSE IF b[1] \in 224..239 /\ C8_Cont(b, 2) /\ C8_Cont(b, 3)
    THEN <<(b[1] - 224) * 4096 + (b[2] - 128) * 64 + (b[3] - 128)>>
            \o C8_Utf8Decode(SubSeq(b, 4, Len(b)))
    ELSE IF b[1] \in 240..247 /\ C8_Cont(b, 2) /\ C8_Cont(b, 3) /\ C8_Cont(b, 4)
    THEN <<(b[1] - 240) * 262144 + (b[2] - 128) * 4096 + (b[3] - 128) * 64 + (b[4] - 128)>>
            \o C8_Utf8Decode(SubSeq(b, 5, Len(b)))
    ELSE <<65533>> \o C8_Utf8Decode(SubSeq(b, 2, Len(b)))

\* one part, split on its first '='
C8_Field(part) ==
    LET at == {i \in 1..Len(part) : part[i] = 61}
    IN  IF at = {} THEN <<part, None>>
        ELSE LET i == CHOOSE j \in at : \A k \in at : j <= k
             IN  <<SubSeq(part, 1, i - 1),
                   Some(C8_Utf8Decode(C8_UnquoteBytes(SubSeq(part, i + 1, Len(part)))))>>

C8_Decode(s) ==
    IF s = << >> THEN << >>
    ELSE LET parts == C8_Split(s, 124)
         IN  [i \in 1..Len(parts) |-> C8_Field(parts[i])]

\* C8: splitting what pack returns on '|', each part on its first '=', and
\* percent-unescaping the value gives back every field as it was supplied:
\* the same keys and values in the same order, whatever the values hold
\* ('|', '=', '%', non-ASCII text, nothing at all).
C8_PackRoundTrip ==
    (fnIn.op = "pack" /\ ~IsNone(fnOut)) => C8_Decode(Val(fnOut)) = fnIn.fields

\* two fields were packed, one with an escape look-alike among separators,
\* one empty
C8_Witness ==
    /\ fnIn.op = "pack" /\ ~IsNone(fnOut)
    /\ Len(fnIn.fields) = 2
    /\ fnIn.fields[1][2] = Some(<<97, 61, 98, 124, 99, 37, 52, 49>>)
    /\ fnIn.fields[2][2] = Some(<< >>)
    /\ C8_Decode(Val(fnOut)) = fnIn.fields

(***************************************************************************)
(* Properties of clamp_reply                                               *)
(***************************************************************************)
C9_Budget == 1024
C9_Stops == {46, 33, 63}

\* the first k characters of text, and their size in bytes
C9_Prefix(text, k) == SubSeq(text, 1, k)
C9_PrefixBytes(text, k) == ByteLen(SubSeq(text, 1, k))

\* positions of the sentence ends that lie within the budget
C9_StopsWithin(text) ==
    {j \in 1..Len(text) : text[j] \in C9_Stops /\ C9_PrefixBytes(text, j) <= C9_Budget}

\* C9: a reply within the budget comes back unchanged.  A longer reply
\* comes back as whole characters of the reply, at most the budget in
\* bytes: cut after the last '.', '!' or '?' that lies within the budget
\* when there is one, and otherwise as the longest prefix that leaves room
\* for an ellipsis, followed by the ellipsis.
C9_ClampReply ==
    (fnIn.op = "clamp_reply" /\ ~IsNone(fnOut)) =>
        LET text == fnIn.text
            r == Val(fnOut)
            n == Len(r)
        IN  IF ByteLen(text) <= C9_Budget THEN r = text
            ELSE /\ ByteLen(r) <= C9_Budget
                 /\ IF C9_StopsWithin(text) # {}
                    THEN r = C9_Prefix(text, SetMax(C9_StopsWithin(text)))
                    ELSE /\ n >= 1
                         /\ r[n] = 8230
                         /\ C9_Prefix(r, n - 1) = C9_Prefix(text, n - 1)
                         /\ C9_PrefixBytes(text, n - 1) <= C9_Budget - 3
                         /\ C9_PrefixBytes(text, n) > C9_Budget - 3

\* a reply of two-byte characters over the budget, with no sentence end
\* inside it, was cut between characters and given its ellipsis
C9_Witness ==
    /\ fnIn.op = "clamp_reply" /\ ~IsNone(fnOut)
    /\ ByteLen(fnIn.text) > 1024
    /\ fnIn.text[1] = 233
    /\ Val(fnOut)[Len(Val(fnOut))] = 8230
    /\ ByteLen(Val(fnOut)) = 1023

(***************************************************************************)
(* Properties of the callback registry                                     *)
(***************************************************************************)
\* C5: a registration that finds an unexpired registration of the same
\* (object, npc) returns that registration's token when the url is the
\* same and another token when the url differs; the registry then holds
\* the returned token, and /chat_async accepts a submission only with the
\* token the registry holds, so a replaced token is refused.
C5_TokenStability ==
    /\ [][(ret'.op = "sl_callback_register" /\ ret'.status = 200) =>
            \A k \in DOMAIN callbacks :
                (~IsNone(callbacks'[k]) /\ callbacks'[k][1].updated_at = now
                    /\ callbacks'[k][1].url = ret'.url
                    /\ callbacks'[k][1].token = ret'.callback_token)
                /\ ((~IsNone(callbacks[k])
                        /\ now - callbacks[k][1].updated_at <= 7200 * SubSec)
                    => IF callbacks[k][1].url = ret'.url
                       THEN ret'.callback_token = callbacks[k][1].token
                       ELSE ret'.callback_token # callbacks[k][1].token)]_vars
    /\ [](ret.op = "chat_async" /\ ret.status = 200 =>
            \E k \in DOMAIN callbacks :
                ~IsNone(callbacks[k]) /\ callbacks[k][1].token = ret.callback_token)
    /\ [][(ret'.op = "chat_async" /\ ret'.callback_token # 0
            /\ \A k \in DOMAIN callbacks :
                  ~IsNone(callbacks[k])
                  /\ now - callbacks[k][1].updated_at <= 7200 * SubSec
                  /\ callbacks[k][1].token # ret'.callback_token)
           => ret'.status = 403 /\ jobs' = jobs]_vars

\* a submission was accepted with the first token, the object registered
\* another url before that registration expired, and a submission with the
\* first token has just been refused
C5_Witness ==
    /\ ret.op = "chat_async" /\ ret.status = 403
    /\ Len(jobs) = 1
    /\ ret.callback_token = jobs[1].callback_token
    /\ \A k \in DOMAIN callbacks :
          ~IsNone(callbacks[k]) /\ callbacks[k][1].url # jobs[1].callback_url
    /\ now < StartTime + 7200 * SubSec

(***************************************************************************)
(* Properties of the worker's delivery and of the package cache            *)
(***************************************************************************)
\* the unescaped text of the field named key in a package
C6_Raw(body, key) ==
    LET parts == C8_Split(body, 124)
        n == Len(key) + 1
        hits == {i \in 1..Len(parts) :
                    Len(parts[i]) >= n /\ SubSeq(parts[i], 1, n) = key \o <<61>>}
    IN  IF hits = {} THEN None
        ELSE LET i == CHOOSE j \in hits : \A k \in hits : j <= k
             IN  Some(SubSeq(parts[i], n + 1, Len(parts[i])))

\* C6: every delivery whose encoded package is longer than 1400 characters
\* posts a TYPE=FETCH package instead of it, whose TOKEN names a cache
\* entry holding exactly that package; every delivery whose package is at
\* most 1400 characters posts the package itself and leaves the cache as
\* it was.
C6_SizeFallback ==
    [][Len(posted') = Len(posted) + 1 =>
        LET p == posted'[Len(posted')]
        IN  /\ C6_Raw(p.pkg, <<84, 89, 80, 69>>) = Some(<<80, 75, 71>>)
            /\ IF Len(p.pkg) > 1400
               THEN /\ p.body # p.pkg
                    /\ Len(p.body) < Len(p.pkg)
                    /\ C6_Raw(p.body, <<84, 89, 80, 69>>) = Some(<<70, 69, 84, 67, 72>>)
                    /\ \E e \in pkgCache' :
                          /\ C6_Raw(p.body, <<84, 79, 75, 69, 78>>) = Some(UuidHex(e.token))
                          /\ e.body = p.pkg
                          /\ \A f \in pkgCache' : f.token = e.token => f = e
               ELSE /\ p.body = p.pkg
                    /\ pkgCache' = pkgCache]_vars

\* a package of 1401 characters has been delivered through the cache
C6_Witness ==
    \E i \in 1..Len(posted) :
        /\ Len(posted[i].pkg) = 1401
        /\ posted[i].body # posted[i].pkg
        /\ \E e \in pkgCache : e.body = posted[i].pkg

\* C7: a fetch of a token the cache issued returns the stored body, with
\* status 200, whenever it is made before the entry expires, and 404
\* whenever it is made after; a fetch of a token the cache never issued
\* returns 404.
C7_FetchUntilExpiry ==
    (ret.op = "sl_fetch" /\ ret.token # 0) =>
        IF \E e \in issued : e.token = ret.token
        THEN \A e \in issued :
                e.token = ret.token =>
                    /\ ret.at < e.expires_at => (ret.status = 200 /\ ret.body = e.body)
                    /\ ret.at > e.expires_at => ret.status = 404
        ELSE ret.status = 404

\* an issued token has been fetched after its entry expired
C7_Witness ==
    /\ ret.op = "sl_fetch" /\ ret.status = 404
    /\ \E e \in issued : e.token = ret.token /\ ret.at > e.expires_at

(***************************************************************************)
(* Properties of quest generation                                          *)
(***************************************************************************)
\* the objects of the pool seen within the last 7 days
C11_Active == {o \in DOMAIN pool : Dated(o) /\ AgeTicks(o) <= 604800 * SubSec}
C11_Clamp(x, lo, hi) == IF x < lo THEN lo ELSE IF x > hi THEN hi ELSE x

\* C11: a generate_quest call without count, for an avatar with no active
\* quest, fails only when no object is active and otherwise stores a quest
\* whose number of objectives is the smaller of clamp(quests_completed + 1,
\* 1, 3) and the number of active objects (so exactly 1 for an avatar who
\* has completed nothing); a call made while that quest is active returns
\* already_has_active_quest with the quest's id.
C11_AutoCount ==
    [][\A a \in Avatars :
        (ret'.op = "generate_quest" /\ ret'.avatar = a /\ IsNone(fnIn.count)) =>
            LET before == player[a]
                want == C11_Clamp(before.history.quests_completed + 1, 1, 3)
                have == Cardinality(C11_Active)
                n == IF want < have THEN want ELSE have
            IN  IF Len(before.current_quest) = 1
                   /\ before.current_quest[1].status = "active"
                THEN /\ ~ret'.ok
                     /\ ret'.error = "already_has_active_quest"
                     /\ ret'.quest_id = <<before.current_quest[1].quest_id>>
                     /\ player' = player
                ELSE IF have = 0
                THEN ~ret'.ok /\ player' = player
                ELSE /\ ret'.ok
                     /\ Len(player'[a].current_quest) = 1
                     /\ player'[a].current_quest[1].status = "active"
                     /\ ret'.quest_id = <<player'[a].current_quest[1].quest_id>>
                     /\ Len(player'[a].current_quest[1].objectives) = n
                     /\ ret'.count = n
                     /\ (before.history.quests_completed = 0 => n = 1)]_vars

\* an avatar who had completed three quests asked for a quest without a
\* count while four objects were active, got three objectives, and asked
\* again
C11_Witness ==
    /\ IsNone(fnIn.count)
    /\ ret.op = "generate_quest" /\ ret.error = "already_has_active_quest"
    /\ \E a \in Avatars :
          /\ player[a].history.quests_completed = 3
          /\ Len(player[a].current_quest) = 1
          /\ Len(player[a].current_quest[1].objectives) = 3
          /\ ret.quest_id = <<player[a].current_quest[1].quest_id>>
    /\ Cardinality(C11_Active) = 4

(***************************************************************************)
(* Properties of the turn orchestrator                                     *)
(***************************************************************************)
\* the turn that has just been made: a /chat request that got past the
\* checks of the message and of the API key
C13_Turn == ret'.op = "chat" /\ ret'.status \in {200, 502}
C13_Key == <<ret'.avatar, ret'.npc_id>>
C13_Hash == <<"sha256", config.instructions>>
\* the first request of the turn found the handle invalid
C13_Recovery ==
    \E i \in 1..Len(ret'.calls) :
        ret'.calls[i].call = "thread" /\ ret'.calls[i].result = "invalid"
C13_Creations ==
    Cardinality({i \in 1..Len(ret'.calls) : ret'.calls[i].call = "create"})

C14_At == IF ret'.calls[1].call = "create" THEN 2 ELSE 1
C14_First == ret'.calls[C14_At]
C14_Rest == SubSeq(ret'.calls, C14_At + 1, Len(ret'.calls))
C14_Last == ret'.calls[Len(ret'.calls)]

\* a turn whose first request, made on a conversation handle, failed with
\* an invalid-handle error
C14_Invalid ==
    /\ C13_Turn
    /\ Len(ret'.calls) >= C14_At
    /\ C14_First.call = "thread"
    /\ C14_First.result = "invalid"

\* the last n events of the turn log as it was before the turn, as
\* messages, followed by the message of this turn
C14_Context(n, message) ==
    LET log == history[C13_Key]
        from == IF Len(log) > n THEN Len(log) - n ELSE 0
    IN  [i \in 1..(Len(log) - from + 1) |->
            IF i <= Len(log) - from
            THEN [role |-> IF log[from + i].direction = "in" THEN "user"
                           ELSE "assistant",
                  content |-> log[from + i].text]
            ELSE [role |-> "user", content |-> message]]

C14_Stateless(c) ==
    /\ c.call = "stateless"
    /\ c.instructions = config.instructions
    /\ c.input = C14_Context(config.max_history, C14_First.input)

\* the recovery: the handle is discarded, one creation is asked for, the
\* request is retried once on the new handle, and one stateless call built
\* from the last max_history events follows when the creation or the retry
\* raised
C14_Sequence ==
    LET rest == C14_Rest
        after == thread'[C13_Key]
    IN  /\ after.conversation_id # <<C14_First.conversation>>
        /\ Len(rest) >= 2
        /\ rest[1].call = "create"
        /\ rest[1].instructions = config.instructions
        /\ IF rest[1].ok
           THEN /\ rest[2].call = "thread"
                /\ rest[2].conversation = Len(remote')
                /\ rest[2].conversation # C14_First.conversation
                /\ rest[2].input = C14_First.input
                /\ remote'[Len(remote')] = [seed |-> config.instructions]
                /\ after = [conversation_id |-> <<Len(remote')>>,
                            instructions_hash |-> <<C13_Hash>>]
                /\ IF rest[2].result \in {"text", "empty"}
                   THEN Len(rest) = 2
                   ELSE Len(rest) = 3 /\ C14_Stateless(rest[3])
           ELSE /\ Len(rest) = 2
                /\ C14_Stateless(rest[2])
                /\ IsNone(after.conversation_id)

\* C14: when the first request of a turn fails with an invalid-handle
\* error, the turn discards the handle, asks for one new conversation,
\* retries once on the new handle, and makes one stateless call, built from
\* the last max_history stored events, when the creation or the retry
\* raised; the turn reports an error exactly when the last of these
\* requests - the retry when it returned, otherwise the stateless call -
\* raised or returned an empty reply.
C14_InvalidHandleRecovery ==
    [][C14_Invalid =>
        /\ C14_Sequence
        /\ ret'.payload.ok <=> C14_Last.result = "text"
        /\ ret'.status = (IF C14_Last.result = "text" THEN 200 ELSE 502)]_vars

\* C14 as stated: after an invalid-handle error the turn reports an error
\* only if the stateless call also failed or returned empty.
C14_ErrorOnlyAfterStateless ==
    [][C14_Invalid =>
        /\ C14_Sequence
        /\ ~ret'.payload.ok =>
              /\ C14_Last.call = "stateless"
              /\ C14_Last.result \in {"empty", "raise", "invalid"}]_vars

\* the stored handle was reported invalid, a new conversation was created,
\* the retry raised, and the stateless call, made with a turn log longer
\* than max_history, answered
C14_Witness ==
    /\ ret.op = "chat" /\ ret.status = 200 /\ ret.payload.ok
    /\ Len(ret.calls) = 4
    /\ ret.calls[1].call = "thread" /\ ret.calls[1].result = "invalid"
    /\ ret.calls[2].call = "create" /\ ret.calls[2].ok
    /\ ret.calls[3].call = "thread" /\ ret.calls[3].result \in {"raise", "invalid"}
    /\ ret.calls[4].call = "stateless" /\ ret.calls[4].result = "text"
    /\ Len(ret.calls[4].input) = 2
    /\ config.max_history = 1
    /\ \E k \in ThreadKeys : Len(history[k]) = 4

\* the error codes of a failed request: empty_reply, or the exception's
\* type and text
C15_Codes ==
    {<<101, 109, 112, 116, 121, 95, 114, 101, 112, 108, 121>>, <<84, 105, 109, 101, 111, 117, 116, 69, 114, 114, 111, 114, 58, 32, 116, 105, 109, 101, 100, 32, 111, 117, 116>>, <<78, 111, 116, 70, 111, 117, 110, 100, 69, 114, 114, 111, 114, 58, 32, 103, 111, 110, 101>>,
     <<66, 97, 100, 82, 101, 113, 117, 101, 115, 116, 69, 114, 114, 111, 114, 58, 32, 73, 110, 118, 97, 108, 105, 100, 32, 104, 97, 110, 100, 108, 101>>}
C15_Apology(code) == <<69, 114, 114, 111, 114, 58, 32, 117, 112, 115, 116, 114, 101, 97, 109, 95, 114, 101, 112, 108, 121, 95, 102, 97, 105, 108, 101, 100, 32, 40>> \o code \o <<41, 46>>

\* C15: a turn whose last request to the model raised or returned an empty
\* completion returns ok=false (status 502) with an error code and the
\* error reply built from it, a turn whose last request answered returns
\* ok=true with that answer; either way the turn appends to the turn log of
\* the (avatar, NPC) pair the user's message as an in event and the reply
\* as an out event, the out event carrying the error code of a failed turn
\* and no error for a successful one.
C15_FailureRecorded ==
    [][C13_Turn =>
        LET last == ret'.calls[Len(ret'.calls)]
            payload == ret'.payload
            failed == last.result # "text"
        IN  /\ last.call \in {"thread", "stateless"}
            /\ payload.ok = ~failed
            /\ ret'.status = (IF failed THEN 502 ELSE 200)
            /\ failed => /\ payload.error \in C15_Codes
                         /\ payload.reply = C15_Apology(payload.error)
                         /\ (last.result = "empty") = (payload.error = <<101, 109, 112, 116, 121, 95, 114, 101, 112, 108, 121>>)
            /\ ~failed => payload.error = << >> /\ payload.reply = <<72, 105, 46>>
            /\ history' = [history EXCEPT ![C13_Key] = @ \o
                  <<[direction |-> "in", text |-> ret'.message],
                    [direction |-> "out", text |-> payload.reply,
                     error |-> IF failed THEN <<payload.error>> ELSE << >>]>>]]_vars

\* a turn whose request timed out, recorded after a turn that succeeded
C15_Witness ==
    /\ ret.op = "chat" /\ ret.status = 502 /\ ~ret.payload.ok
    /\ ret.payload.error = <<84, 105, 109, 101, 111, 117, 116, 69, 114, 114, 111, 114, 58, 32, 116, 105, 109, 101, 100, 32, 111, 117, 116>>
    /\ \E k \in ThreadKeys :
          /\ Len(history[k]) = 4
          /\ history[k][2] = [direction |-> "out", text |-> <<72, 105, 46>>, error |-> << >>]
          /\ history[k][3].direction = "in"
          /\ history[k][4].direction = "out"
          /\ history[k][4].error = <<<<84, 105, 109, 101, 111, 117, 116, 69, 114, 114, 111, 114, 58, 32, 116, 105, 109, 101, 100, 32, 111, 117, 116>>>>
          /\ history[k][4].text = ret.payload.reply

(***************************************************************************)
(* Properties of the worker                                                *)
(***************************************************************************)
C17_Posts(sent, i) == Cardinality({n \in 1..Len(sent) : sent[n].job = i})

\* C17: the worker of an accepted submission makes at most one callback
\* POST, as its last step; when the POST fails the worker stops all the
\* same, and the step changes neither the quest state, the conversation
\* handle and turn log left by the turn, nor the callback registry.
C17_FireAndForget ==
    [][/\ \A i \in 1..Len(jobs') : C17_Posts(posted', i) <= 1
       /\ (ret'.op = "worker" /\ ret'.step = "deliver") =>
             /\ C17_Posts(posted', ret'.job) = 1
             /\ C17_Posts(posted, ret'.job) = 0
             /\ jobs'[ret'.job].pc = "done"
             /\ UNCHANGED <<player, thread, history, remote, callbacks>>]_vars

\* a POST that failed, after a turn that stored a handle and two events and
\* a hook that granted a reward
C17_Witness ==
    /\ ret.op = "worker" /\ ret.step = "deliver" /\ ~ret.success
    /\ Len(posted) = 1 /\ jobs[1].pc = "done"
    /\ jobs[1].post = <<"Give:QUEST_REWARD">>
    /\ \E k \in ThreadKeys :
          Len(history[k]) = 2 /\ ~IsNone(thread[k].conversation_id)
    /\ \E k \in CbKeys : ~IsNone(callbacks[k])

\* the value, unescaped, of the first field named key in a package
WireField(body, key) ==
    LET fields == C8_Decode(body)
        hits == {i \in 1..Len(fields) : fields[i][1] = key}
    IN  IF hits = {} THEN None
        ELSE fields[CHOOSE j \in hits : \A k \in hits : j <= k][2]

\* a /chat_async request that passed the validation of its fields
C12_Submitted == ret'.op = "chat_async" /\ ret'.status # 400

\* the registration the request meets, if it has not expired
C12_Registration ==
    LET entry == callbacks[ret'.key]
    IN  IF entry # << >> /\ now - entry[1].updated_at <= 7200 * SubSec
        THEN entry ELSE << >>

\* the gate of /chat_async: 409 without an unexpired registration, 403 with
\* another token than the registered one, and in both cases no worker, no
\* request to the model and no change of quest state, conversation state or
\* package cache; otherwise 200, one worker more
C12_Gate ==
    C12_Submitted =>
        /\ ret'.status \in {200, 403, 409}
        /\ ret'.status = 409 <=> C12_Registration = << >>
        /\ ret'.status = 409 => ret'.error = "callback_not_registered"
        /\ ret'.status = 403 <=>
              /\ C12_Registration # << >>
              /\ C12_Registration[1].token # ret'.callback_token
        /\ ret'.status = 403 => ret'.error = "callback_token_invalid"
        /\ ret'.status # 200 =>
              UNCHANGED <<jobs, posted, player, nextQuestId, pool,
                          thread, history, remote, pkgCache, issued>>
        /\ ret'.status = 200 =>
              /\ Len(jobs') = Len(jobs) + 1
              /\ SubSeq(jobs', 1, Len(jobs)) = jobs
              /\ jobs'[Len(jobs')].pc = "pre"
              /\ jobs'[Len(jobs')].callback_token = ret'.callback_token

\* every callback names, as RID, the correlation id of its job
C12_Rid ==
    (ret'.op = "worker" /\ ret'.step = "deliver") =>
        /\ Len(posted') = Len(posted) + 1
        /\ WireField(posted'[Len(posted')].body, <<82, 73, 68>>)
              = <<jobs[ret'.job].client_req_id>>

\* C12 as stated: the gate of /chat_async, and an accepted submission is
\* answered with the client's correlation id, or with an id the server
\* generated when the client sent none, and that same id is the RID of the
\* callback.
C12_SameIdInCallback ==
    [][/\ C12_Gate
       /\ C12_Rid
       /\ (C12_Submitted /\ ret'.status = 200) =>
             ret'.client_req_id = jobs'[Len(jobs')].client_req_id]_vars

\* the gate alone, and the RID of a callback being the id the worker was
\* handed
C12_GateAndRid == [][C12_Gate /\ C12_Rid]_vars

\* a callback was posted for a submission that was accepted with a
\* correlation id the server generated
C12_Witness ==
    /\ ret.op = "worker" /\ ret.step = "deliver"
    /\ Len(posted) = 1
    /\ WireField(posted[1].body, <<82, 73, 68>>) = <<UuidHex(2)>>
    /\ jobs[1].client_req_id = UuidHex(2)

\* the steps of a worker, in the order of the code
C20_Order == <<"pre", "chat", "post", "deliver", "done">>
C20_Index(pc) == CHOOSE n \in 1..Len(C20_Order) : C20_Order[n] = pc

\* the actions of both hooks, blanks removed, joined by ';'
RECURSIVE C20_Join(_)
C20_Join(actions) ==
    IF actions = << >> THEN << >>
    ELSE IF Len(actions) = 1 THEN Text(actions[1])
    ELSE Text(actions[1]) \o <<59>> \o C20_Join(Tail(actions))

\* the message a request of the turn hands to the model
C20_Given(call) ==
    IF call.call = "thread" THEN call.input
    ELSE call.input[Len(call.input)].content

\* C20: a worker starts at the pre-turn hook and every step it takes is the
\* next of pre-turn hook, turn, post-turn hook, delivery (encoding and
\* callback POST), also when a hook raised; the quest context the pre-turn
\* hook returned describes the quest state it left and stands ahead of the
\* user's message in every request of the turn (a hook that raised passes
\* none); and the ACT field of the package is the pre-hook actions followed
\* by the post-hook actions, joined by ';'.
C20_WorkerOrder ==
    [][/\ \A i \in 1..Len(jobs') :
             IF i > Len(jobs) THEN jobs'[i].pc = "pre"
             ELSE \/ jobs'[i].pc = jobs[i].pc
                  \/ /\ C20_Index(jobs'[i].pc) = C20_Index(jobs[i].pc) + 1
                     /\ ret'.op = "worker" /\ ret'.job = i
                     /\ ret'.step = jobs[i].pc
       /\ ret'.op = "worker" =>
             LET i == ret'.job
                 job == jobs[i]
             IN  /\ job.pc = ret'.step
                 /\ C20_Index(jobs'[i].pc) = C20_Index(job.pc) + 1
                 /\ ret'.step = "pre" =>
                       jobs'[i].quest_context =
                           IF ret'.failed THEN << >>
                           ELSE <<build_quest_context(player'[job.avatar_key])>>
                 /\ ret'.step = "chat" =>
                       \A n \in 1..Len(ret'.calls) :
                           ret'.calls[n].call \in {"thread", "stateless"} =>
                               C20_Given(ret'.calls[n]) =
                                   IF job.quest_context = << >>
                                   THEN <<Text(job.message)>>
                                   ELSE <<"<<QUEST_CONTEXT>>\n", job.quest_context[1],
                                          "\n<</QUEST_CONTEXT>>\nPlayer: ",
                                          Text(job.message)>>
                 /\ ret'.step = "deliver" =>
                       /\ Len(posted') = Len(posted) + 1
                       /\ WireField(posted'[Len(posted')].pkg, <<65, 67, 84>>)
                             = <<C20_Join(job.pre \o job.post)>>]_vars

\* a worker whose turn was made with the quest context of a quest the
\* pre-turn hook had just generated, and whose post-turn hook then raised,
\* stands before its delivery
C20_Witness ==
    /\ ret.op = "worker" /\ ret.step = "post" /\ ret.failed
    /\ jobs[1].pc = "deliver"
    /\ jobs[1].message = "give me a quest"
    /\ jobs[1].payload.ok
    /\ \E a \in Avatars :
          /\ Len(player[a].current_quest) = 1
          /\ player[a].current_quest[1].status = "active"
    /\ \E k \in ThreadKeys : Len(history[k]) = 2

(***************************************************************************)
(* Properties of registration expiry and of input validation               *)
(***************************************************************************)
\* the registration a request for key k meets has been left alone for
\* longer than CALLBACK_TTL_SECONDS
C18_Expired(k) ==
    /\ callbacks[k] # << >>
    /\ now - callbacks[k][1].updated_at > 7200 * SubSec

\* C18: once a registration has not been renewed for longer than the TTL, a
\* submission for it is refused with 409 callback_not_registered whatever
\* token it presents, the old one included, and starts no worker, and a
\* registration with the same url gets a token other than the old one; a
\* registration with the same url made before that keeps the token and
\* sets the time of registration to now.
C18_RegistrationExpiry ==
    [][/\ (ret'.op = "chat_async" /\ ret'.status # 400 /\ C18_Expired(ret'.key)) =>
             /\ ret'.status = 409
             /\ ret'.error = "callback_not_registered"
             /\ jobs' = jobs
       /\ (ret'.op = "sl_callback_register" /\ ret'.status = 200
              /\ callbacks[ret'.key] # << >>
              /\ callbacks[ret'.key][1].url = ret'.url) =>
             /\ callbacks'[ret'.key] =
                    <<[url |-> ret'.url, token |-> ret'.callback_token,
                       updated_at |-> now]>>
             /\ IF C18_Expired(ret'.key)
                THEN ret'.callback_token # callbacks[ret'.key][1].token
                ELSE ret'.callback_token = callbacks[ret'.key][1].token]_vars

\* more than the TTL after the one registration, a submission presenting
\* the token of that registration has just been refused as not registered
C18_Witness ==
    /\ ret.op = "chat_async" /\ ret.status = 409
    /\ ret.callback_token = 1 /\ nextUuid = 2
    /\ now > StartTime + 7200 * SubSec
    /\ \A k \in CbKeys : callbacks[k] = << >>

\* the call answered by r was made with one of the inputs that validation
\* refuses
C16_Refused(r) ==
    \/ r.op = "chat" /\ r.message = << >>
    \/ r.op = "chat_async" /\ (\/ r.args.message = ""
                               \/ r.args.avatar_key = ""
                               \/ r.args.object_key = ""
                               \/ r.args.callback_token = 0)
    \/ r.op = "sl_callback_register" /\ (\/ r.key[1] = ""
                                         \/ r.url = ""
                                         \/ r.url \notin Urls)
    \/ r.op = "pool_register" /\ r.object_id = EmptyId

\* C16: /chat with an empty message, /chat_async with an empty message or
\* without avatar_key, object_key or callback_token, /sl/callback/register
\* without object_key or callback_url or with a url that is not http(s),
\* and /pool/register without object_id each answer 400 and leave the
\* object pool, the callback registry, the package cache, the quest state,
\* the conversation handle and the turn log as they were, and start no
\* worker.
C16_ValidationHasNoSideEffects ==
    [][C16_Refused(ret') =>
          /\ ret'.status = 400
          /\ UNCHANGED <<pool, callbacks, pkgCache, issued, player, nextQuestId,
                         thread, history, remote, jobs, posted>>]_vars

\* with a worker started, a second turn logged and a package in the cache,
\* a submission without callback_token has just been refused
C16_Witness ==
    /\ ret.op = "chat_async" /\ ret.status = 400
    /\ ret.args.message # "" /\ ret.args.avatar_key # "" /\ ret.args.object_key # ""
    /\ ret.args.callback_token = 0
    /\ Len(jobs) = 1
    /\ \E k \in ThreadKeys : Len(history[k]) = 4
    /\ pkgCache # {}

(***************************************************************************)
(* Properties of workers running side by side                              *)
(***************************************************************************)
\* the workers whose post-turn hook issued the reward action
C19_Rewarded ==
    {i \in 1..Len(jobs) : InSeq("Give:QUEST_REWARD", jobs[i].post)}

\* C19: whatever the interleaving of the workers for one avatar, the action
\* Give:QUEST_REWARD is issued at most once for the avatar's quest and
\* quests_completed has grown by one for each reward issued.  (No quest is
\* generated here, so the quest is the one the avatar starts with, and
\* quests_completed starts at 0.)
C19_RewardOnceUnderConcurrency ==
    \A a \in Avatars :
        LET rewarded == {i \in C19_Rewarded : jobs[i].avatar_key = a}
        IN  /\ Cardinality(rewarded) <= 1
            /\ player[a].history.quests_completed = Cardinality(rewarded)

\* two workers have each issued the reward for the one completed quest
C19_Witness ==
    /\ Cardinality(C19_Rewarded) = 2
    /\ \A a \in Avatars : player[a].history.quests_completed = 1
    /\ \A i \in 1..Len(jobs) : jobs[i].pc = "done"

(***************************************************************************)
(* Properties of the reward grant and of candidate selection               *)
(***************************************************************************)
C21_Recent(a) == player[a].history.recent_objects
C21_NoDuplicates(seq) == \A i, j \in 1..Len(seq) : seq[i] = seq[j] => i = j

\* the list after is what is left of the list before once its k oldest ids
\* are gone, followed by ids that were not in it
C21_OldestEvicted(before, after) ==
    \E k \in 0..Len(before) :
        /\ Len(after) >= Len(before) - k
        /\ \A i \in 1..(Len(before) - k) : after[i] = before[k + i]
        /\ \A i \in (Len(before) - k + 1)..Len(after) : ~InSeq(after[i], before)
        /\ k > 0 => Len(after) = MAX_RECENT_OBJECTS

\* the post-turn hook has just granted the reward of avatar a's quest
C21_Granted(a) ==
    /\ ret'.op = "quest_post_chat" /\ ret'.avatar = a
    /\ InSeq("Give:QUEST_REWARD", ret'.actions)

\* the part of C21 about the counter, the current quest and the list's
\* bound, order and lack of duplicates
C21_GrantBounded ==
    [][\A a \in Avatars : C21_Granted(a) =>
          /\ player'[a].history.quests_completed = player[a].history.quests_completed + 1
          /\ player'[a].current_quest = None
          /\ Len(C21_Recent(a)') <= MAX_RECENT_OBJECTS
          /\ C21_NoDuplicates(C21_Recent(a)')
          /\ C21_OldestEvicted(C21_Recent(a), C21_Recent(a)')]_vars

\* C21: when the post-turn hook grants a reward, quests_completed grows by
\* one, the current quest becomes none and every object id of the quest is
\* in the recent-object list afterwards; the list holds at most
\* MAX_RECENT_OBJECTS ids, has no duplicates, and loses its oldest ids when
\* the bound is exceeded.
C21_RewardGrantEffect ==
    [][\A a \in Avatars : C21_Granted(a) =>
          /\ player'[a].history.quests_completed = player[a].history.quests_completed + 1
          /\ player'[a].current_quest = None
          /\ \A i \in 1..Len(player[a].current_quest[1].objectives) :
                InSeq(player[a].current_quest[1].objectives[i].object_id, C21_Recent(a)')
          /\ Len(C21_Recent(a)') <= MAX_RECENT_OBJECTS
          /\ C21_NoDuplicates(C21_Recent(a)')
          /\ C21_OldestEvicted(C21_Recent(a), C21_Recent(a)')]_vars

\* a reward has been granted for a quest on object 1, the oldest id of a
\* full recent-object list, and on two objects that were not in the list,
\* and object 1 is no longer in the list
C21_Witness ==
    /\ ret.op = "quest_post_chat" /\ InSeq("Give:QUEST_REWARD", ret.actions)
    /\ \A a \in Avatars :
          /\ player[a].history.quests_completed = MAX_RECENT_OBJECTS + 1
          /\ Len(C21_Recent(a)) = MAX_RECENT_OBJECTS
          /\ ~InSeq(1, C21_Recent(a))
          /\ InSeq(MAX_RECENT_OBJECTS + 1, C21_Recent(a))

\* the number of objectives asked for: the count argument, or the
\* automatic count
C22_Count(a) ==
    IF fnIn.count = << >>
    THEN C11_Clamp(player[a].history.quests_completed + 1, 1, 3)
    ELSE fnIn.count[1]

\* the active objects not in the avatar's recent-object list
C22_Unseen(a) ==
    {o \in C11_Active : \A i \in 1..Len(player[a].history.recent_objects) :
                            player[a].history.recent_objects[i] # o}

\* the unseen active objects of the requested difficulty, all of them when
\* no difficulty is requested
C22_OfDifficulty(a) ==
    IF fnIn.difficulty = << >> THEN C22_Unseen(a)
    ELSE {o \in C22_Unseen(a) : pool[o][1].difficulty = fnIn.difficulty[1]}

\* the first of the three sets with at least count members, else the last
C22_Chosen(a) ==
    IF Cardinality(C22_OfDifficulty(a)) >= C22_Count(a) THEN C22_OfDifficulty(a)
    ELSE IF Cardinality(C22_Unseen(a)) >= C22_Count(a) THEN C22_Unseen(a)
    ELSE C11_Active

\* a generate_quest call for avatar a, who has no active quest, has returned
C22_Called(a) ==
    /\ ret'.op = "generate_quest" /\ ret'.avatar = a
    /\ ~(Len(player[a].current_quest) = 1 /\ player[a].current_quest[1].status = "active")

\* what C22 says of such a call
C22_Outcome(a) ==
    LET n == IF C22_Count(a) < Cardinality(C22_Chosen(a))
             THEN C22_Count(a) ELSE Cardinality(C22_Chosen(a))
    IN  IF C11_Active = {}
        THEN ~ret'.ok /\ ~ret'.raised /\ ret'.error = "no_active_objects"
             /\ player' = player
        ELSE /\ ret'.ok
             /\ Len(player'[a].current_quest) = 1
             /\ Len(player'[a].current_quest[1].objectives) = n
             /\ \A i \in 1..n :
                   player'[a].current_quest[1].objectives[i].object_id \in C22_Chosen(a)

\* C22: generate_quest takes its candidates from the first of (active
\* objects of the requested difficulty minus recent objects), (active
\* objects minus recent objects), (active objects) that has at least count
\* members, and from the last when none has; it fails with
\* no_active_objects exactly when no object is active, and otherwise stores
\* a quest with min(count, size of the chosen set) objectives.
C22_FilterRelaxation ==
    [][\A a \in Avatars : C22_Called(a) => C22_Outcome(a)]_vars

\* the same for calls that ask for at least one objective
C22_PositiveCount ==
    [][\A a \in Avatars : (C22_Called(a) /\ C22_Count(a) >= 1) => C22_Outcome(a)]_vars

\* a call with count 0 and a difficulty no active object has failed with
\* no_active_objects while four objects were active
C22_Witness ==
    /\ fnIn.count = <<0>> /\ fnIn.difficulty = <<0>>
    /\ ret.op = "generate_quest" /\ ~ret.ok /\ ret.error = "no_active_objects"
    /\ Cardinality(C11_Active) = 4

(***************************************************************************)
(* Properties of quest events and of the pre-turn hook                     *)
(***************************************************************************)
\* handle_quest_event has returned for avatar a and a non-empty object id
C23_Event(a) ==
    /\ ret'.op = "handle_quest_event" /\ ret'.avatar = a
    /\ ret'.object_id # EmptyId

\* the object of the event is none of the objectives of a's quest
C23_Foreign(a) ==
    \A i \in 1..Len(player[a].current_quest[1].objectives) :
        player[a].current_quest[1].objectives[i].object_id # ret'.object_id

\* C23: an event for an avatar with no current quest, or with a completed
\* one, reports matched=false with reason no_active_quest and leaves the
\* stored quest and history as they were; an event for an object that is
\* not an objective of the active quest reports matched=false with the
\* found_count as it was and leaves them as they were too.
C23_EventWithoutEffect ==
    [][\A a \in Avatars : C23_Event(a) =>
          IF ~ActiveNow(a)
          THEN /\ ret'.ok /\ ~ret'.matched /\ ret'.reason = "no_active_quest"
               /\ player' = player
          ELSE C23_Foreign(a) =>
                  /\ ret'.ok /\ ~ret'.matched
                  /\ ret'.found_count = NumFound(player[a].current_quest[1])
                  /\ player' = player]_vars

\* the same for quests that have at least one objective
C23_WithObjectives ==
    [][\A a \in Avatars :
          (C23_Event(a) /\ (ActiveNow(a) => Len(player[a].current_quest[1].objectives) >= 1)) =>
          IF ~ActiveNow(a)
          THEN /\ ret'.ok /\ ~ret'.matched /\ ret'.reason = "no_active_quest"
               /\ player' = player
          ELSE C23_Foreign(a) =>
                  /\ ret'.ok /\ ~ret'.matched
                  /\ ret'.found_count = NumFound(player[a].current_quest[1])
                  /\ player' = player]_vars

\* an event has just completed a quest that has no objective
C23_Witness ==
    /\ ret.op = "handle_quest_event" /\ ret.ok /\ ~ret.matched
    /\ ret.reason = "" /\ ret.total_count = 0 /\ ret.quest_completed
    /\ \E a \in Avatars : CompletedNow(a) /\ Len(player[a].current_quest[1].objectives) = 0

\* the messages of the model that hold one of the keywords of
\* quest_pre_chat: "give me", "quest" in capitals, "ok" inside "look"
C24_Intent == {"give me a quest", "QUEST?", "look"}

\* what the quest context says of a stored state
C24_Describes(context, state) ==
    /\ context.quests_completed = state.history.quests_completed
    /\ IF state.current_quest = << >>
       THEN context.status = "none" /\ context.quest_id = << >> /\ context.total = 0
       ELSE LET quest == state.current_quest[1]
            IN  /\ context.status = quest.status
                /\ context.quest_id = <<quest.quest_id>>
                /\ context.total = Len(quest.objectives)
                /\ context.found =
                       {quest.objectives[i].object_id :
                           i \in {j \in 1..Len(quest.objectives) : quest.objectives[j].found}}

\* C24: quest_pre_chat generates a quest only when the avatar has no
\* current quest and the message holds a quest-intent keyword, in every
\* other case it leaves the avatar's quest state as it was, and the quest
\* context it returns describes the quest state as the hook leaves it.
C24_PreTurnHook ==
    [][\A a \in Avatars :
          (ret'.op = "quest_pre_chat" /\ ret'.avatar = a) =>
             /\ (player[a].current_quest # << >> \/ ret'.message \notin C24_Intent)
                   => player' = player
             /\ player' # player =>
                   /\ player'[a].history = player[a].history
                   /\ Len(player'[a].current_quest) = 1
                   /\ player'[a].current_quest[1].status = "active"
                   /\ player'[a].current_quest[1].quest_id = nextQuestId
             /\ C24_Describes(ret'.quest_context, player'[a])]_vars

\* the hook, given "look" by an avatar without a quest, has generated a
\* quest and returned a context that shows it
C24_Witness ==
    /\ ret.op = "quest_pre_chat" /\ ret.message = "look"
    /\ ret.quest_context.status = "active" /\ ret.quest_context.total = 1
    /\ \E a \in Avatars : ActiveNow(a) /\ player[a].history.quests_completed = 0

\* the quest a successful generate_quest call has just stored for avatar a
C25_Stored(a) == player'[a].current_quest[1]

\* the greatest difficulty among the objects selected for that quest
C25_Hardest(a) ==
    LET ds == {pool[C25_Stored(a).objectives[i].object_id][1].difficulty :
                  i \in 1..Len(C25_Stored(a).objectives)}
    IN  CHOOSE d \in ds : \A e \in ds : e <= d

\* C25: the difficulty stored in a generated quest is the requested
\* difficulty whenever one is supplied, and otherwise the greatest
\* difficulty among the objects selected for the quest.
C25_QuestDifficulty ==
    [][\A a \in Avatars :
          (ret'.op = "generate_quest" /\ ret'.avatar = a /\ ret'.ok) =>
             IF fnIn.difficulty # << >>
             THEN C25_Stored(a).difficulty = fnIn.difficulty[1]
             ELSE C25_Stored(a).difficulty = C25_Hardest(a)]_vars

\* the same for requested difficulties other than 0
C25_NonZero ==
    [][\A a \in Avatars :
          (ret'.op = "generate_quest" /\ ret'.avatar = a /\ ret'.ok
              /\ fnIn.difficulty # <<0>>) =>
             IF fnIn.difficulty # << >>
             THEN C25_Stored(a).difficulty = fnIn.difficulty[1]
             ELSE C25_Stored(a).difficulty = C25_Hardest(a)]_vars

\* a quest asked for with difficulty 0 has been stored with difficulty 2
C25_Witness ==
    /\ fnIn.difficulty = <<0>>
    /\ ret.op = "generate_quest" /\ ret.ok
    /\ \E a \in Avatars : ActiveNow(a) /\ player[a].current_quest[1].difficulty = 2

(***************************************************************************)
(* Properties of the stores under concurrent requests                      *)
(***************************************************************************)
\* every /pool/register request in flight has completed
C26_AllDone == \A i \in 1..Len(jobs) : jobs[i].pc = "done"

\* request i took POOL_LOCK after every other request for the same id
C26_LastFor(i) ==
    \A j \in 1..Len(jobs) :
        jobs[j].object_id = jobs[i].object_id => jobs[j].turn <= jobs[i].turn

\* C26: whatever the interleaving of concurrent /pool/register requests,
\* once all have completed every registered id is in the pool, and the
\* record stored for an id is the one written by the request for that id
\* that took the pool mutex last.
C26_RegistrationSerialized ==
    C26_AllDone =>
        \A i \in 1..Len(jobs) :
            /\ pool[jobs[i].object_id] # << >>
            /\ C26_LastFor(i) => pool[jobs[i].object_id] = jobs[i].wrote

\* three requests have completed, two of them for object 1 with different
\* difficulties at different times, and the third for object 2 in between
C26_Witness ==
    /\ C26_AllDone
    /\ \E i, j, k \in 1..Len(jobs) :
          /\ jobs[i].object_id = 1 /\ jobs[j].object_id = 2 /\ jobs[k].object_id = 1
          /\ jobs[i].turn < jobs[j].turn /\ jobs[j].turn < jobs[k].turn
          /\ jobs[i].difficulty # jobs[k].difficulty
          /\ jobs[i].wrote[1].last_seen # jobs[k].wrote[1].last_seen
          /\ pool[1] = jobs[k].wrote /\ pool[2] = jobs[j].wrote

\* the step is a pkg_cache_put: the cache has gained an entry
C27_Put == pkgCache' \ pkgCache # {}

\* the step ends a worker
C27_JobEnds == \E i \in 1..Len(jobs) : jobs[i].pc # "done" /\ jobs'[i].pc = "done"

\* C27: directly after pkg_cache_put returns, and directly after an async
\* job finishes, the cache holds no entry whose expires_at lies in the
\* past.
C27_PrunedOnWriteAndJobEnd ==
    [][(C27_Put \/ C27_JobEnds) => Expired(pkgCache', now') = {}]_vars

\* directly after the worker's pkg_cache_prune, which follows the turn,
\* the cache holds no entry whose expires_at lies in the past
C27_PrunedAfterTurn ==
    [][(ret'.op = "worker" /\ ret'.step = "chat") => Expired(pkgCache', now') = {}]_vars

\* a worker has just stored its package and ended, and the cache holds
\* the package of the earlier delivery past its expiry
C27_Witness ==
    /\ ret.op = "worker" /\ ret.step = "deliver"
    /\ jobs[1].pc = "done"
    /\ CachedPackage \in Expired(pkgCache, now)
    /\ \E e \in pkgCache : e.token = nextUuid - 1 /\ e.expires_at = now + PkgTtl

(***************************************************************************)
(* Properties of the delivery of asynchronous turns                        *)
(***************************************************************************)
\* the step after a worker's step
C28_After(pc) ==
    CASE pc = "pre" -> "chat"
      [] pc = "chat" -> "post"
      [] pc = "post" -> "deliver"
      [] OTHER -> "done"

\* no step takes a worker away or sets it back: a dispatched turn stays
\* where it is or moves to its next step
C28_NoCancel ==
    [][\A i \in 1..Len(jobs) :
          /\ i <= Len(jobs')
          /\ jobs'[i].pc \in {jobs[i].pc, C28_After(jobs[i].pc)}]_vars

\* worker i has made its callback POST
C28_Posted(i) == \E k \in 1..Len(posted) : posted[k].job = i

C29_Delivers == ret'.op = "worker" /\ ret'.step = "deliver"

\* the registration of the object the worker answers, as a handler would
\* read it at time t
C29_Held(cb, npc_id, t) ==
    LET k == CHOOSE k \in CbKeys : k[2] = npc_id
    IN  prune_callbacks(cb, t)[k]

\* C29: each callback POST goes to the URL, and carries the token, that
\* the registry holds for the (object, npc) at the time of the POST; never
\* to a URL or with a token that a re-registration has replaced or that
\* has expired since the submission.
C29_PostsToCurrentRegistration ==
    [][C29_Delivers =>
          LET sent == posted'[Len(posted')]
              held == C29_Held(callbacks', jobs[sent.job].npc_id, now')
          IN  /\ ~IsNone(held)
              /\ Val(held).url = sent.url
              /\ Val(held).token = sent.token]_vars

\* every POST goes to the URL, with the token, that the registry held
\* when the submission was accepted
C29_PostsToSubmittedRegistration ==
    [][/\ C29_Delivers =>
              LET sent == posted'[Len(posted')]
              IN  /\ sent.url = jobs[sent.job].callback_url
                  /\ sent.token = jobs[sent.job].callback_token
       /\ Len(jobs') > Len(jobs) =>
              LET job == jobs'[Len(jobs')]
                  held == C29_Held(callbacks', job.npc_id, now')
              IN  /\ ~IsNone(held)
                  /\ Val(held).url = job.callback_url
                  /\ Val(held).token = job.callback_token]_vars

\* a worker has just posted to the URL of its submission, with that
\* token, while the registry holds another URL and another token for the
\* object
C29_Witness ==
    /\ ret.op = "worker" /\ ret.step = "deliver"
    /\ LET sent == posted[Len(posted)]
           held == C29_Held(callbacks, jobs[sent.job].npc_id, now)
       IN  /\ ~IsNone(held)
           /\ Val(held).url # sent.url
           /\ Val(held).token # sent.token

(***************************************************************************)
(* Properties of the turn log                                              *)
(***************************************************************************)
\* C30: the persisted turn log of an (avatar, NPC) conversation is
\* bounded: however many turns were made, its length stays within a fixed
\* bound.  The bound is the largest one the code knows for the log, the
\* number of events a turn reads back at most.
C30_TurnLogBounded ==
    \A k \in ThreadKeys : Len(history[k]) <= MaxHistoryEvents

\* every turn that reaches the model adds its two events to the log,
\* however long the log is, and no handler shortens the log
C30_TurnLogGrows ==
    [][/\ \A k \in ThreadKeys :
             /\ Len(history'[k]) >= Len(history[k])
             /\ SubSeq(history'[k], 1, Len(history[k])) = history[k]
       /\ (ret'.op = "chat" /\ ret'.status \in {200, 502}) =>
             Len(history'[<<ret'.avatar, ret'.npc_id>>])
                 = Len(history[<<ret'.avatar, ret'.npc_id>>]) + 2]_vars

\* a turn has just been answered and the log holds more events than any
\* turn reads back
C30_Witness ==
    /\ ret.op = "chat" /\ ret.status = 200
    /\ Len(history[<<ret.avatar, ret.npc_id>>]) > MaxHistoryEvents

(***************************************************************************)
(* Properties of POST /quest/event                                         *)
(***************************************************************************)
\* the step answers a /quest/event request that names an avatar and an
\* event but no object, neither as object_id nor as object_key
C31_NoObject ==
    /\ ret'.op = "quest_event"
    /\ ret'.args.avatar_key # "" /\ ret'.args.event # ""
    /\ StripId(ret'.args.object_id) = EmptyId
    /\ StripId(ret'.args.object_key) = EmptyId

\* C31: POST /quest/event answers a request that has avatar_key and event
\* but neither object_id nor object_key with a 400-class result and leaves
\* the quest state as it was, as it does for a request without avatar_key
\* or event.
C31_MissingObjectRefused ==
    [][C31_NoObject => /\ ret'.status \in 400..499
                       /\ player' = player]_vars

\* a request without an object changes no quest state, and a request
\* without avatar_key or event gets 400 and changes no quest state
C31_MissingFieldsWithoutEffect ==
    [][/\ C31_NoObject => player' = player
       /\ (ret'.op = "quest_event" /\ (ret'.args.avatar_key = "" \/ ret'.args.event = ""))
              => ret'.status = 400 /\ player' = player]_vars

\* an object_found event without an object has been answered with 200 and
\* ok = true for a player with an active quest, the quest engine having
\* returned missing_fields
C31_Witness ==
    /\ ret.op = "quest_event" /\ ret.status = 200 /\ ret.ok
    /\ ret.args.event = "object_found" /\ ret.object_id = EmptyId
    /\ ~ret.engine.ok /\ ret.engine.error = "missing_fields"
    /\ \E a \in Avatars :
          /\ ~IsNone(player[a].current_quest)
          /\ Val(player[a].current_quest).status = "active"

(***************************************************************************)
(* Properties of the quest engine under concurrent requests                *)
(***************************************************************************)
\* the objectives stored as found in the current quest of a player state
C32_FoundIn(state) ==
    IF IsNone(state.current_quest) THEN {}
    ELSE LET objectives == Val(state.current_quest).objectives
         IN  {objectives[i].object_id :
                 i \in {j \in 1..Len(objectives) : objectives[j].found}}

\* every event in flight has completed
C32_AllDone == \A i \in 1..Len(jobs) : jobs[i].pc = "done"

\* an objective stored as found stays found while the quest exists
C32_NeverReverts ==
    [][\A a \in Avatars :
          (~IsNone(player[a].current_quest) /\ ~IsNone(player'[a].current_quest)
             /\ Val(player'[a].current_quest).quest_id = Val(player[a].current_quest).quest_id)
          => C32_FoundIn(player[a]) \subseteq C32_FoundIn(player'[a])]_vars

\* C32: no found mark is lost.  Whatever the interleaving of concurrent
\* events for one avatar, once all have completed every objective for which
\* an event reported matched = true is stored as found, and an objective
\* stored as found never reverts to unfound while the quest exists.
C32_NoFoundMarkLost ==
    /\ [](C32_AllDone =>
            \A i \in 1..Len(jobs) :
                Val(jobs[i].result).matched =>
                    jobs[i].object_id \in C32_FoundIn(player[jobs[i].avatar_key]))
    /\ C32_NeverReverts

\* two events for the two objectives of the quest have both reported
\* matched = true, and the quest is stored with one objective unfound
C32_Witness ==
    /\ C32_AllDone
    /\ \E i, j \in 1..Len(jobs) :
          /\ jobs[i].object_id = 1 /\ jobs[j].object_id = 2
          /\ Val(jobs[i].result).matched /\ Val(jobs[j].result).matched
    /\ C32_FoundIn(player["av1"]) # {1, 2}
    /\ Val(player["av1"].current_quest).status = "active"

(***************************************************************************)
(* Properties of the quest life cycle                                      *)
(***************************************************************************)
\* avatar a holds a completed quest whose reward has not been granted
C33_Pending(a) ==
    /\ ~IsNone(player[a].current_quest)
    /\ Val(player[a].current_quest).status = "completed"
    /\ ~Val(player[a].current_quest).reward_given

\* the step leaves the current quest of a as it is, or is its reward grant
C33_KeptOrRewarded(a) ==
    \/ player'[a].current_quest = player[a].current_quest
    \/ /\ IsNone(player'[a].current_quest)
       /\ player'[a].history.quests_completed = player[a].history.quests_completed + 1

\* C33: a completed quest whose reward has not been granted is never
\* discarded.  No call of generate_quest, direct or through the pre-turn
\* hook, replaces or removes it; the only way out of completed is the
\* reward grant.
C33_CompletedNeverDiscarded ==
    [][\A a \in Avatars : C33_Pending(a) => C33_KeptOrRewarded(a)]_vars

\* no step of the pre-turn hook, of a quest event or of the post-turn hook
\* discards a completed quest that is not rewarded
C33_HooksKeepCompleted ==
    [][(ret'.op # "generate_quest") =>
          \A a \in Avatars : C33_Pending(a) => C33_KeptOrRewarded(a)]_vars

\* generate_quest has just stored a new quest, and the call before it
\* completed the quest the player had
C33_Witness ==
    /\ ret.op = "generate_quest" /\ ret.ok
    /\ \E a \in Avatars :
          /\ ~IsNone(player[a].current_quest)
          /\ Val(player[a].current_quest).status = "active"
          /\ ret.quest_id = Some(Val(player[a].current_quest).quest_id)
          /\ Val(player[a].current_quest).quest_id > 1
          /\ player[a].history.quests_completed = 0

\* the reward of the avatar's quest has been granted: the post-turn hook
\* of a worker returned the reward action
C34_Granted ==
    \E i \in 1..Len(jobs) :
        /\ "post" \in DOMAIN jobs[i]
        /\ jobs[i].pc \in {"deliver", "done"}
        /\ jobs[i].post # << >>

\* quests_completed of no avatar decreases
C34_CountNeverDecreases ==
    [][\A a \in Avatars :
          player'[a].history.quests_completed >= player[a].history.quests_completed]_vars

\* C34: a rewarded quest never comes back.  Once the reward grant has
\* cleared a quest it is never the avatar's current quest again, and the
\* avatar's quests_completed never decreases, whatever the interleaving of
\* quest events and workers for the avatar.
C34_RewardedNeverReturns ==
    /\ [](C34_Granted =>
            \A a \in Avatars :
                \/ IsNone(player[a].current_quest)
                \/ Val(player[a].current_quest).quest_id # OneObjective.quest_id)
    /\ C34_CountNeverDecreases

\* the worker has granted the reward of the quest and ended, every event
\* has completed, and the quest is the avatar's current quest again, with
\* no quest counted as completed
C34_Witness ==
    /\ C34_Granted
    /\ \A i \in 1..Len(jobs) : jobs[i].pc = "done"
    /\ ~IsNone(player["av1"].current_quest)
    /\ Val(player["av1"].current_quest).quest_id = OneObjective.quest_id
    /\ player["av1"].history.quests_completed = 0

\* C35: every body posted to a callback URL is at most SAFE_CALLBACK_MAX
\* characters long, the fetch-indirection package included, for every
\* correlation id, avatar key, NPC id and error text.
C35_BodyWithinCeiling ==
    \A k \in 1..Len(posted) : Len(posted[k].body) <= SAFE_CALLBACK_MAX

\* a result package that is posted itself is within the ceiling
C35_DirectWithinCeiling ==
    \A k \in 1..Len(posted) :
        posted[k].body = posted[k].pkg => Len(posted[k].body) <= SAFE_CALLBACK_MAX

\* a fetch-indirection package for a correlation id of at most 32
\* characters is within the ceiling
C35_FetchOfShortIdWithinCeiling ==
    \A k \in 1..Len(posted) :
        Len(jobs[posted[k].job].client_req_id) <= Len(UuidHex(1))
            => Len(posted[k].body) <= SAFE_CALLBACK_MAX

\* a fetch-indirection package longer than the ceiling has been posted
C35_Witness ==
    \E k \in 1..Len(posted) :
        /\ posted[k].body # posted[k].pkg
        /\ posted[k].body = FetchBody(jobs[posted[k].job], 2)
        /\ Len(posted[k].body) > SAFE_CALLBACK_MAX

\* a step stores a new quest for avatar a: a current quest that was not
\* the current quest before
C36_Stores(a) ==
    /\ ~IsNone(player'[a].current_quest)
    /\ \/ IsNone(player[a].current_quest)
       \/ Val(player'[a].current_quest).quest_id # Val(player[a].current_quest).quest_id

\* at least one objective, every objective unfound, no object twice
C36_WellFormed(q) ==
    /\ Len(q.objectives) >= 1
    /\ \A i \in 1..Len(q.objectives) :
          ~q.objectives[i].found /\ IsNone(q.objectives[i].found_at)
    /\ \A i, j \in 1..Len(q.objectives) :
          q.objectives[i].object_id = q.objectives[j].object_id => i = j

\* a step completes the active quest of avatar a
C36_Completes(a) ==
    /\ HasActiveQuest(player[a].current_quest)
    /\ ~IsNone(player'[a].current_quest)
    /\ Val(player'[a].current_quest).quest_id = Val(player[a].current_quest).quest_id
    /\ Val(player'[a].current_quest).status = "completed"

\* C36: every quest stored by generate_quest has at least one objective,
\* all objectives unfound and no two of them with the same object_id, for
\* every count argument, every difficulty argument and every pool content;
\* so a quest is completed only by an event that matched an objective.
C36_StoredQuestWellFormed ==
    [][\A a \in Avatars :
          /\ C36_Stores(a) => C36_WellFormed(Val(player'[a].current_quest))
          /\ C36_Completes(a) => ret'.op = "handle_quest_event" /\ ret'.matched]_vars

\* a quest stored by a call that asks for at least one objective, or that
\* leaves the count to generate_quest, is well formed
C36_PositiveCount ==
    [][\A a \in Avatars :
          (C36_Stores(a) /\ (IsNone(fnIn.count) \/ Val(fnIn.count) >= 1))
              => C36_WellFormed(Val(player'[a].current_quest))]_vars

\* a quest without objectives is stored, and an event that matched nothing
\* has completed it
C36_Witness ==
    /\ ret.op = "handle_quest_event"
    /\ ~ret.matched
    /\ \E a \in Avatars :
          /\ ~IsNone(player[a].current_quest)
          /\ Val(player[a].current_quest).objectives = << >>
          /\ Val(player[a].current_quest).status = "completed"

\* the registration requests, all for one (object, npc, url), have all
\* completed
C37_AllRegistered ==
    /\ \A i \in 1..MaxCallers : jobs[i].pc = "done"
    /\ \A i, j \in 1..MaxCallers : jobs[i].callback_url = jobs[j].callback_url

\* the tokens the registration requests returned
C37_Returned == {jobs[i].callback_token : i \in 1..MaxCallers}

\* C37: every token returned by register_callback is usable.  Under any
\* interleaving of concurrent registrations of the same (object, npc, url),
\* once all have completed each caller holds the token of the registry, so
\* a submission presenting a returned token is not refused with
\* callback_token_invalid.
C37_ReturnedTokenUsable ==
    /\ [](C37_AllRegistered =>
            \A i \in 1..MaxCallers :
                jobs[i].callback_token = Val(callbacks[<<"obj1", "npc1">>]).token)
    /\ []((C37_AllRegistered /\ ret.op = "chat_async"
              /\ ret.callback_token \in C37_Returned)
            => ret.error # "callback_token_invalid")

\* one registration at a time: a request that reads the registry after
\* every earlier request of the same url has written it returns the token
\* the registry holds
C37_SequentialTokenKept ==
    [][\A i \in 1..MaxCallers :
          (/\ jobs[i].pc = "get" /\ jobs'[i].pc = "set"
           /\ \A j \in 1..MaxCallers : jobs[j].pc # "set"
           /\ ~IsNone(callbacks'[<<"obj1", "npc1">>])
           /\ Val(callbacks'[<<"obj1", "npc1">>]).url = jobs[i].callback_url)
          => RegisterToken(Val(jobs'[i].local), jobs[i].callback_url, nextUuid)
                = Val(callbacks'[<<"obj1", "npc1">>]).token]_vars

\* both registrations of one url have completed, and a submission with the
\* token one of them returned is refused with callback_token_invalid
C37_Witness ==
    /\ C37_AllRegistered
    /\ ret.op = "chat_async"
    /\ ret.status = 403
    /\ ret.callback_token \in C37_Returned

\* the in entry and the out entry of turn i are in the log of its pair,
\* the in entry before the out entry
C38_Logged(i) ==
    LET log == history[<<jobs[i].avatar_key, jobs[i].npc_id>>]
    IN  \E p, q \in 1..Len(log) :
           /\ p < q
           /\ log[p] = jobs[i].events[1]
           /\ log[q] = jobs[i].events[2]

\* C38: the turn log is append-only and loses nothing.  Once a turn has
\* completed, its in entry and its out entry stay in the log of the
\* (avatar, NPC) pair, the in entry before the out entry, also when two
\* turns of the pair run concurrently.
C38_CompletedTurnLogged ==
    \A i \in 1..MaxTurnThreads : jobs[i].pc = "done" => C38_Logged(i)

\* a turn whose appends no other turn's append overlaps keeps the log it
\* found and adds its entry at the end
C38_AppendAlone ==
    [][\A i \in 1..MaxTurnThreads :
          (/\ jobs[i].pc = "write" /\ jobs'[i].pc # "write"
           /\ Val(jobs[i].local) = history[<<jobs[i].avatar_key, jobs[i].npc_id>>])
          => history'[<<jobs[i].avatar_key, jobs[i].npc_id>>]
                = Append(history[<<jobs[i].avatar_key, jobs[i].npc_id>>],
                         jobs[i].events[jobs'[i].appended])]_vars

\* both turns have completed and the log lacks an entry of one of them
C38_Witness ==
    /\ \A i \in 1..MaxTurnThreads : jobs[i].pc = "done"
    /\ \E i \in 1..MaxTurnThreads :
          \A p \in 1..Len(history[<<"av1", "npc1">>]) :
              history[<<"av1", "npc1">>][p] # jobs[i].events[1]

\* the fingerprint of the instructions the conversation of a handle was
\* created with
C39_CreatedUnder(conversation_id) ==
    hash_instructions(remote[conversation_id].seed)

\* C39: handle and fingerprint stay paired.  At the end of every turn and
\* of every admin conversation reset, a remote conversation handle stored
\* for an (avatar, NPC) pair has a fingerprint stored with it, and that is
\* the fingerprint of the instructions in force when the handle was
\* created, whichever path the turn took.
C39_HandleAndFingerprintPaired ==
    \A k \in ThreadKeys :
        ~IsNone(thread[k].conversation_id)
            => /\ Val(thread[k].conversation_id) \in 1..Len(remote)
               /\ thread[k].instructions_hash
                     = Some(C39_CreatedUnder(Val(thread[k].conversation_id)))

\* a turn found its handle invalid after the system text had been edited
\* and a conversation reset, made a new conversation, and the new handle is
\* stored
C39_Witness ==
    /\ ret.op = "chat"
    /\ \E i \in 1..Len(ret.calls) :
          /\ ret.calls[i].call = "thread" /\ ret.calls[i].result = "invalid"
          /\ \E j \in (i + 1)..Len(ret.calls) :
                ret.calls[j].call = "create" /\ ret.calls[j].ok
    /\ ~IsNone(thread[<<"av1", "npc1">>].conversation_id)
    /\ Val(thread[<<"av1", "npc1">>].conversation_id) = Len(remote)
    /\ Len(remote) >= 3
    /\ remote[Len(remote)].seed # remote[1].seed

(***************************************************************************)
(* Properties of the profile enricher                                      *)
(***************************************************************************)
\* the jobs of avatar a that are queued or running
C40_Live(a) ==
    {i \in 1..Len(jobs) :
        jobs[i].avatar_uuid = a /\ jobs[i].pc \in {"submit", "queued", "running"}}

\* C40: profile enrichment is de-duplicated.  For every avatar at most one
\* enrichment job is queued or running at any time, a request that arrives
\* while one is in flight is acknowledged without starting another, and
\* the in-flight marker of an avatar is removed when its job ends,
\* whether it succeeded or raised, so that a later request starts a new
\* job.
C40_OneJobPerAvatar ==
    /\ [](\A a \in EnrichAvatars :
            /\ Cardinality(C40_Live(a)) <= 1
            /\ a \in IN_FLIGHT <=> C40_Live(a) # {})
    /\ [][\A a \in EnrichAvatars :
            (ret'.op = "profile_enrich" /\ ret'.avatar_uuid = a)
                => /\ ret'.status = 202
                   /\ IF C40_Live(a) # {}
                      THEN jobs' = jobs /\ ~ret'.started
                      ELSE /\ ret'.started
                           /\ Len(jobs') = Len(jobs) + 1
                           /\ jobs'[Len(jobs')].avatar_uuid = a]_vars

\* a job of avatar av1 raised and ended, a later request started a new job
\* for av1, and a request that arrived while that one was in flight was
\* acknowledged without starting another
C40_Witness ==
    /\ \E i, j \in 1..Len(jobs) :
          /\ i < j
          /\ jobs[i].avatar_uuid = "av1" /\ jobs[i].pc = "done" /\ jobs[i].raised
          /\ jobs[j].avatar_uuid = "av1" /\ jobs[j].pc = "running"
    /\ ret.op = "profile_enrich"
    /\ ret.avatar_uuid = "av1"
    /\ ~ret.started

=============================================================================
